---- MODULE Spec2Model ----
(***************************************************************************)
(* Model of the HISE documentation server's data loader (HISEDataLoader):  *)
(* index build, query normalization, staged search, similarity scoring,    *)
(* suggestion lookup and related-item discovery.                           *)
(*                                                                         *)
(* Strings are TLA+ strings; characters are one-character strings taken    *)
(* with SubSeq.  Scores are exact rationals scaled by Scale, so that 1.0   *)
(* is Scale and matchCount / totalQueryTokens divides without remainder.   *)
(***************************************************************************)
EXTENDS Naturals, Integers, Sequences, FiniteSets, TLC

(***************************************************************************)
(* Bounds of the model.                                                    *)
(***************************************************************************)
\* search() is called with limit in 1..MaxLimit
MaxLimit == 3

(***************************************************************************)
(* String primitives (JavaScript String.prototype).                        *)
(***************************************************************************)
Char(s, i) == SubSeq(s, i, i)

UpperLetters == "ABCDEFGHIJKLMNOPQRSTUVWXYZ"
LowerLetters == "abcdefghijklmnopqrstuvwxyz"
Digits == "0123456789"
Punctuation == " .*()-!,"

CharsOf(s) == { Char(s, i) : i \in 1..Len(s) }

\* the characters the strings of the model are written with
Alphabet ==
    CharsOf(UpperLetters) \cup CharsOf(LowerLetters) \cup CharsOf(Digits)
    \cup CharsOf(Punctuation)

RECURSIVE IndexOfChar(_, _, _)
\* 1-based position of character c in s at or after position i; 0 when absent
IndexOfChar(s, c, i) ==
    IF i > Len(s) THEN 0
    ELSE IF Char(s, i) = c THEN i
    ELSE IndexOfChar(s, c, i + 1)

\* String.prototype.toLowerCase on one character
LowerOf ==
    [c \in Alphabet |->
        LET k == IndexOfChar(UpperLetters, c, 1)
        IN IF k = 0 THEN c ELSE Char(LowerLetters, k)]

\* String.prototype.toUpperCase on one character
UpperOf ==
    [c \in Alphabet |->
        LET k == IndexOfChar(LowerLetters, c, 1)
        IN IF k = 0 THEN c ELSE Char(UpperLetters, k)]

LowerChar(c) == LowerOf[c]

UpperChar(c) == UpperOf[c]

RECURSIVE toLowerCase(_)
toLowerCase(s) ==
    IF s = "" THEN "" ELSE LowerChar(Char(s, 1)) \o toLowerCase(Tail(s))

RECURSIVE toUpperCase(_)
toUpperCase(s) ==
    IF s = "" THEN "" ELSE UpperChar(Char(s, 1)) \o toUpperCase(Tail(s))

IsSpace(c) == c = " "

RECURSIVE trimStart(_)
trimStart(s) ==
    IF s # "" /\ IsSpace(Char(s, 1)) THEN trimStart(Tail(s)) ELSE s

RECURSIVE trimEnd(_)
trimEnd(s) ==
    IF s # "" /\ IsSpace(Char(s, Len(s)))
    THEN trimEnd(SubSeq(s, 1, Len(s) - 1))
    ELSE s

trim(s) == trimEnd(trimStart(s))

startsWith(s, p) == Len(p) <= Len(s) /\ SubSeq(s, 1, Len(p)) = p

endsWith(s, p) ==
    Len(p) <= Len(s) /\ SubSeq(s, Len(s) - Len(p) + 1, Len(s)) = p

includes(s, p) ==
    \E i \in 1..(Len(s) - Len(p) + 1) : SubSeq(s, i, i + Len(p) - 1) = p

RECURSIVE SplitFrom(_, _, _)
\* the pieces of s from position i on, cut at every occurrence of sep
SplitFrom(s, sep, i) ==
    LET k == IndexOfChar(s, sep, i)
    IN IF k = 0 THEN <<SubSeq(s, i, Len(s))>>
       ELSE <<SubSeq(s, i, k - 1)>> \o SplitFrom(s, sep, k + 1)

split(s, sep) == SplitFrom(s, sep, 1)

\* membership of a value in a sequence (Array.prototype.includes)
InSeq(x, seq) == \E i \in 1..Len(seq) : seq[i] = x


\* the sequence seq with x appended unless already present (Set.prototype.add)
AddUnique(seq, x) == IF InSeq(x, seq) THEN seq ELSE Append(seq, x)

(***************************************************************************)
(* Keyword Tokenizer.                                                      *)
(***************************************************************************)
STOPWORDS ==
    { "the", "a", "an", "is", "are", "was", "were", "be", "been", "being",
      "have", "has", "had", "do", "does", "did", "will", "would", "could",
      "should", "may", "might", "must", "can", "to", "of", "in", "for", "on",
      "with", "at", "by", "from", "as", "into", "through", "during", "before",
      "after", "above", "below", "between", "under", "again", "further", "then",
      "once", "here", "there", "when", "where", "why", "how", "all", "each",
      "few", "more", "most", "other", "some", "such", "no", "nor", "not", "only",
      "own", "same", "so", "than", "too", "very", "just", "and", "but", "if",
      "or", "because", "until", "while", "this", "that", "these", "those", "it",
      "its" }

\* keywords shorter than this many characters + 1 are dropped (word.length > 2)
MinKeywordLength == 2

\* the character class [a-z0-9]
AlnumChars == CharsOf(LowerLetters) \cup CharsOf(Digits)

IsAlnum(c) == c \in AlnumChars

RECURSIVE MatchWords(_, _, _)
\* text.match(/[a-z0-9]+/g): the maximal runs of [a-z0-9] of s from position
\* i on, cur being the run under construction
MatchWords(s, i, cur) ==
    IF i > Len(s) THEN (IF cur = "" THEN <<>> ELSE <<cur>>)
    ELSE IF IsAlnum(Char(s, i)) THEN MatchWords(s, i + 1, cur \o Char(s, i))
    ELSE (IF cur = "" THEN <<>> ELSE <<cur>>) \o MatchWords(s, i + 1, "")

KeepWord(word) == Len(word) > MinKeywordLength /\ word \notin STOPWORDS

RECURSIVE AddWords(_, _, _)
AddWords(keywords, words, i) ==
    IF i > Len(words) THEN keywords
    ELSE AddWords(IF KeepWord(words[i]) THEN AddUnique(keywords, words[i])
                  ELSE keywords,
                  words, i + 1)

RECURSIVE ExtractFrom(_, _, _)
ExtractFrom(keywords, texts, i) ==
    IF i > Len(texts) THEN keywords
    ELSE ExtractFrom(IF texts[i] = "" THEN keywords
                     ELSE AddWords(keywords,
                                   MatchWords(toLowerCase(texts[i]), 1, ""), 1),
                     texts, i + 1)

\* extractKeywords(...texts): the kept words, in first-seen order, no repeats
extractKeywords(texts) == ExtractFrom(<<>>, texts, 1)

(***************************************************************************)
(* Query normalization.                                                    *)
(***************************************************************************)
\* query.replace(/\(\)$/, '')
StripEmptyParens(q) ==
    IF endsWith(q, "()") THEN SubSeq(q, 1, Len(q) - 2) ELSE q

\* query.replace(/\(.*\)$/, ''): the leftmost "(" starts the match when the
\* string ends with ")"; the greedy .* takes everything in between
StripArgs(q) ==
    LET k == IndexOfChar(q, "(", 1)
    IN IF k # 0 /\ endsWith(q, ")") THEN SubSeq(q, 1, k - 1) ELSE q

\* normalizeQuery without the lowercasing
normalizeQueryKeepCase(query) == trim(StripArgs(StripEmptyParens(query)))

\* normalizeQuery without the two replace calls
normalizeQueryKeepParens(query) == trim(toLowerCase(query))

normalizeQuery(query) == trim(toLowerCase(StripArgs(StripEmptyParens(query))))

(***************************************************************************)
(* Scores.  A score v of the program is the integer v * 840 here: 840 is   *)
(* divisible by 20 (so 0.85 is exact) and by every keyword count up to 8.  *)
(***************************************************************************)
SimExact == 840              \* 1.0
SimPrefix == 672             \* 0.8
SimSubstring == 504          \* 0.6
SimSegment == 420            \* 0.5
SimKeyword == 336            \* 0.4
SimilarThreshold == 252      \* findSimilar keeps score > 0.3
ScoreExact == 840            \* 1.0
ScorePrefix == 756           \* 0.9
KeywordBase == 252           \* 0.3
KeywordSpan == 420           \* 0.5
KeywordCap == 672            \* 0.8
FuzzyThreshold == 336        \* the fuzzy stage keeps score >= 0.4
DomainBonus == 168           \* 0.2
RelatedApiScore == 756       \* 0.9
RelatedComponentScore == 714 \* 0.85
PrefixCapFactor == 2
KeywordCapFactor == 3
FuzzyCapFactor == 5

Max(a, b) == IF a >= b THEN a ELSE b
Min(a, b) == IF a <= b THEN a ELSE b

(***************************************************************************)
(* Similarity Scorer.                                                      *)
(***************************************************************************)
\* some query part is contained in some id part
PartsMatch(queryParts, idParts) ==
    \E i \in 1..Len(queryParts) : \E j \in 1..Len(idParts) :
        includes(idParts[j], queryParts[i])

\* some query word is among the keywords
WordsMatch(queryWords, keywords) ==
    \E i \in 1..Len(queryWords) : InSeq(queryWords[i], keywords)

\* calculateSimilarity with the rules added up instead of maximised
calculateSimilarityAdditive(query, id, name, keywords) ==
    IF id = query \/ name = query THEN SimExact
    ELSE (IF startsWith(id, query) \/ startsWith(name, query)
          THEN SimPrefix ELSE 0)
         + (IF includes(id, query) \/ includes(name, query)
            THEN SimSubstring ELSE 0)
         + (IF PartsMatch(split(query, "."), split(id, "."))
            THEN SimSegment ELSE 0)
         + (IF WordsMatch(extractKeywords(<<query>>), keywords)
            THEN SimKeyword ELSE 0)

calculateSimilarity(query, id, name, keywords) ==
    IF id = query \/ name = query THEN SimExact
    ELSE
      LET s1 == IF startsWith(id, query) \/ startsWith(name, query)
                THEN Max(0, SimPrefix) ELSE 0
          s2 == IF includes(id, query) \/ includes(name, query)
                THEN Max(s1, SimSubstring) ELSE s1
          s3 == IF PartsMatch(split(query, "."), split(id, "."))
                THEN Max(s2, SimSegment) ELSE s2
          s4 == IF WordsMatch(extractKeywords(<<query>>), keywords)
                THEN Max(s3, SimKeyword) ELSE s3
      IN s4

(***************************************************************************)
(* Wildcard patterns.  A normalized query holds letters, digits, blanks,   *)
(* '-', '.', '*', '(' and ')'; of these '.', '*', '(' and ')' are regular  *)
(* expression syntax.                                                      *)
(***************************************************************************)
RECURSIVE ReplaceStars(_)
\* normalized.replace(/\*/g, '.*')
ReplaceStars(q) ==
    IF q = "" THEN ""
    ELSE (IF Char(q, 1) = "*" THEN ".*" ELSE Char(q, 1)) \o ReplaceStars(Tail(q))

RECURSIVE ParensBalanced(_, _, _)
ParensBalanced(p, i, depth) ==
    IF i > Len(p) THEN depth = 0
    ELSE IF Char(p, i) = "(" THEN ParensBalanced(p, i + 1, depth + 1)
    ELSE IF Char(p, i) = ")" THEN depth > 0 /\ ParensBalanced(p, i + 1, depth - 1)
    ELSE ParensBalanced(p, i + 1, depth)

\* new RegExp(`^${pattern}$`, 'i') throws a SyntaxError on an unterminated
\* group or an unmatched ')'
RegExpCompiles(pattern) == ParensBalanced(pattern, 1, 0)

RECURSIVE RegExpTest(_, _)
\* regex.test(s) for the anchored pattern p.  Every '*' of p follows the '.'
\* that ReplaceStars put before it, so a group is never quantified and its
\* parentheses match the empty string; '.' matches any one character.
RegExpTest(p, s) ==
    IF p = "" THEN s = ""
    ELSE LET c == Char(p, 1)
         IN IF c = "(" \/ c = ")" THEN RegExpTest(Tail(p), s)
            ELSE IF c = "." /\ Len(p) >= 2 /\ Char(p, 2) = "*"
            THEN \E k \in 0..Len(s) :
                    RegExpTest(SubSeq(p, 3, Len(p)), SubSeq(s, k + 1, Len(s)))
            ELSE /\ s # ""
                 /\ (c = "." \/ c = Char(s, 1))
                 /\ RegExpTest(Tail(p), Tail(s))

(***************************************************************************)
(* Source files.  The raw entries of a file are a sequence, with the        *)
(* fields the loader's indexes and queries read.                           *)
(***************************************************************************)
Ui(componentType, propertyName, description) ==
    [componentType |-> componentType, propertyName |-> propertyName,
     description |-> description]

Api(namespace, name, description) ==
    [namespace |-> namespace, name |-> name, description |-> description]

Proc(processorType, paramId, description) ==
    [processorType |-> processorType, paramId |-> paramId,
     description |-> description]

Snip(title, description, category, tags, apis, components, difficulty) ==
    [title |-> title, description |-> description, category |-> category,
     tags |-> tags, relatedAPIs |-> apis,
     relatedComponents |-> components, difficulty |-> difficulty]

ApiSmall ==
    << Api("Synth", "addNoteOn", "Adds a note on event"),
       Api("Synth", "noteOff", "Sends a note off"),
       Api("Engine", "getSampleRate", "Returns the sample rate"),
       Api("ScriptPanel", "data", "The data object of the panel"),
       Api("SynthGroup", "setEnabled", "Enables the group") >>

ApiBig ==
    << Api("Synth", "addController", "Adds a controller event"),
       Api("Synth", "addPitchFade", "Adds a pitch fade"),
       Api("Synth", "addVolumeFade", "Adds a volume fade"),
       Api("Synth", "playNote", "Plays a note"),
       Api("Synth", "noteOffByEventId", "Sends a note off"),
       Api("Synth", "addNoteOn", "Adds a note on event"),
       Api("Engine", "allNotesOff", "Stops every synth voice") >>

UiSmall ==
    << Ui("ScriptButton", "filmstripImage", "The filmstrip image"),
       Ui("ScriptSlider", "mode", "The slider mode") >>

UiShared ==
    << Ui("ScriptButton", "filmstripImage", "The filmstrip image"),
       Ui("ScriptPanel", "data", "Custom data of the panel"),
       Ui("ScriptSlider", "midiLearn", "Enables midi learn") >>

ProcSmall ==
    << Proc("SimpleEnvelope", "Attack", "The attack time"),
       Proc("SimpleGain", "Gain", "The gain of the synth") >>

SnipNone == << >>

SnipSmall ==
    << Snip("Basic Synth", "A basic synth playing a note", "Modules",
            <<"Featured">>, <<"Synth.addNoteOn", "Synth.playNote">>,
            <<"ScriptButton">>, "beginner"),
       Snip("MIDI Note Player", "Plays a midi note", "MIDI",
            <<"Best Practice", "midi">>, <<"synth.addnoteon", "Synth.addNoteOn">>,
            <<"ScriptSlider.mode", "scriptslider.MODE">>, "advanced"),
       Snip("Basic-Synth!", "Another basic synth", "modules",
            << >>, << >>, << >>, "intermediate") >>

\* a value of a source entry that is a JSON number where the program expects
\* a string: calling toLowerCase on it throws a TypeError
JsonNumber == "<number>"

IsText(value) == value # JsonNumber

\* a snippet library whose second entry has a number as title
SnipBadTitle ==
    << SnipSmall[1],
       Snip(JsonNumber, "Plays a midi note", "MIDI", << >>, << >>, << >>,
            "advanced"),
       SnipSmall[3] >>

\* a snippet library whose second entry has a number as description
SnipBadDescription ==
    << SnipSmall[1],
       Snip("MIDI Note Player", JsonNumber, "MIDI", << >>, << >>, << >>,
            "advanced"),
       SnipSmall[3] >>

\* a file of the data directory: readFileSync and JSON.parse give its
\* entries, or one of them throws
JsonFile(entries) == [kind |-> "json", entries |-> entries]

\* the file does not exist: readFileSync and statSync throw
FileMissing == [kind |-> "missing", entries |-> << >>]

\* the file is no JSON: JSON.parse throws
FileUnparsable == [kind |-> "unparsable", entries |-> << >>]

\* the file is JSON of another shape, an array of strings: the transforms
\* find no entry in it and return []
FileWrongShape == [kind |-> "array", entries |-> << >>]

\* readFileSync and JSON.parse succeed on the file
Readable(file) == file.kind \in {"json", "array"}

\* what the data directory of a healthy installation can hold
Corpora ==
    [ui : {JsonFile(UiSmall), JsonFile(UiShared)},
     api : {JsonFile(ApiSmall), JsonFile(ApiBig)},
     proc : {JsonFile(ProcSmall)},
     snippets : {JsonFile(SnipNone), JsonFile(SnipSmall)}]

SearchDomains == {"all", "api", "ui", "modules", "snippets"}

(***************************************************************************)
(* Canonicalizer.                                                          *)
(***************************************************************************)
transformUIProperty(e) ==
    [id |-> e.componentType \o "." \o e.propertyName,
     componentType |-> e.componentType, propertyName |-> e.propertyName,
     description |-> e.description]

transformUIProperties(file) == [i \in 1..Len(file) |-> transformUIProperty(file[i])]

transformMethod(e) ==
    [id |-> e.name, namespace |-> e.namespace, methodName |-> e.name,
     description |-> e.description]

transformScriptingAPI(file) == [i \in 1..Len(file) |-> transformMethod(file[i])]

transformProcessor(e) ==
    [id |-> e.processorType \o "." \o e.paramId,
     moduleType |-> e.processorType, parameterId |-> e.paramId,
     description |-> e.description]

transformProcessors(file) == [i \in 1..Len(file) |-> transformProcessor(file[i])]

RECURSIVE Hyphenate(_, _, _)
\* text.replace(/[^a-z0-9]+/g, '-'): inRun says the previous character was
\* already replaced
Hyphenate(s, i, inRun) ==
    IF i > Len(s) THEN ""
    ELSE IF IsAlnum(Char(s, i)) THEN Char(s, i) \o Hyphenate(s, i + 1, FALSE)
    ELSE (IF inRun THEN "" ELSE "-") \o Hyphenate(s, i + 1, TRUE)

\* text.replace(/(^-|-$)/g, '')
StripHyphens(s) ==
    LET a == IF startsWith(s, "-") THEN Tail(s) ELSE s
    IN IF endsWith(a, "-") THEN SubSeq(a, 1, Len(a) - 1) ELSE a

slugify(text) == StripHyphens(Hyphenate(toLowerCase(text), 1, FALSE))

transformSnippet(e) ==
    [id |-> slugify(e.title), title |-> e.title, description |-> e.description,
     category |-> e.category, tags |-> e.tags, relatedAPIs |-> e.relatedAPIs,
     relatedComponents |-> e.relatedComponents, difficulty |-> e.difficulty]

transformSnippets(file) == [i \in 1..Len(file) |-> transformSnippet(file[i])]

(***************************************************************************)
(* The loader.  A Map is a function whose domain is its key set; the       *)
(* keyword index keeps each token's ids in insertion order, as a JavaScript*)
(* Set iterates them.                                                      *)
(***************************************************************************)
\* null / undefined
NULL == [null |-> TRUE]

EmptyMap == << >>

MapHas(m, k) == k \in DOMAIN m

MapSet(m, k, v) == [y \in (DOMAIN m) \cup {k} |-> IF y = k THEN v ELSE m[y]]

\* Map.prototype.get, NULL standing for undefined
MapGet(m, k) == IF MapHas(m, k) THEN m[k] ELSE NULL

Item(id, domain, name, description, keywords) ==
    [id |-> id, domain |-> domain, name |-> name, description |-> description,
     keywords |-> keywords]

\* the state of a HISEDataLoader right after construction
NewLoader ==
    [data |-> NULL, propertyIndex |-> EmptyMap, apiMethodIndex |-> EmptyMap,
     parameterIndex |-> EmptyMap, snippetIndex |-> EmptyMap,
     keywordIndex |-> EmptyMap, allItems |-> << >>, snippetsLoaded |-> FALSE]

RECURSIVE addToKeywordIndexNoRepeat(_, _, _, _)
\* addToKeywordIndex that leaves a token alone once it has an id: a token's
\* later items are not added
addToKeywordIndexNoRepeat(index, itemId, keywords, i) ==
    IF i > Len(keywords) THEN index
    ELSE LET keyword == keywords[i]
         IN addToKeywordIndexNoRepeat(
               IF MapHas(index, keyword) THEN index
               ELSE MapSet(index, keyword, <<itemId>>),
               itemId, keywords, i + 1)

RECURSIVE addToKeywordIndex(_, _, _, _)
addToKeywordIndex(index, itemId, keywords, i) ==
    IF i > Len(keywords) THEN index
    ELSE LET keyword == keywords[i]
             ids == IF MapHas(index, keyword) THEN index[keyword] ELSE << >>
         IN addToKeywordIndex(MapSet(index, keyword, AddUnique(ids, itemId)),
                              itemId, keywords, i + 1)

RECURSIVE IndexUIProperties(_, _, _)
IndexUIProperties(L, props, i) ==
    IF i > Len(props) THEN L
    ELSE LET prop == props[i]
             key == toLowerCase(prop.componentType \o "." \o prop.propertyName)
             keywords == extractKeywords(<<prop.propertyName, prop.description,
                                           prop.componentType>>)
         IN IndexUIProperties(
              [L EXCEPT
                 !.propertyIndex = MapSet(@, key, prop),
                 !.keywordIndex = addToKeywordIndex(@, key, keywords, 1),
                 !.allItems = Append(@,
                     Item(key, "ui",
                          prop.componentType \o "." \o prop.propertyName,
                          prop.description, keywords))],
              props, i + 1)

RECURSIVE IndexAPIMethods(_, _, _)
IndexAPIMethods(L, methods, i) ==
    IF i > Len(methods) THEN L
    ELSE LET method == methods[i]
             key == toLowerCase(method.namespace \o "." \o method.methodName)
             keywords == extractKeywords(<<method.methodName, method.description,
                                           method.namespace>>)
         IN IndexAPIMethods(
              [L EXCEPT
                 !.apiMethodIndex = MapSet(@, key, method),
                 !.keywordIndex = addToKeywordIndex(@, key, keywords, 1),
                 !.allItems = Append(@,
                     Item(key, "api",
                          method.namespace \o "." \o method.methodName,
                          method.description, keywords))],
              methods, i + 1)

RECURSIVE IndexModuleParameters(_, _, _)
IndexModuleParameters(L, params, i) ==
    IF i > Len(params) THEN L
    ELSE LET param == params[i]
             key == toLowerCase(param.moduleType \o "." \o param.parameterId)
             keywords == extractKeywords(<<param.parameterId, param.description,
                                           param.moduleType>>)
         IN IndexModuleParameters(
              [L EXCEPT
                 !.parameterIndex = MapSet(@, key, param),
                 !.keywordIndex = addToKeywordIndex(@, key, keywords, 1),
                 !.allItems = Append(@,
                     Item(key, "modules",
                          param.moduleType \o "." \o param.parameterId,
                          param.description, keywords))],
              params, i + 1)

buildIndexes(L) ==
    IF L.data = NULL THEN L
    ELSE LET cleared == [L EXCEPT !.propertyIndex = EmptyMap,
                                  !.apiMethodIndex = EmptyMap,
                                  !.parameterIndex = EmptyMap,
                                  !.snippetIndex = EmptyMap,
                                  !.keywordIndex = EmptyMap,
                                  !.allItems = << >>]
             withUi == IndexUIProperties(cleared,
                                         L.data.uiComponentProperties, 1)
             withApi == IndexAPIMethods(withUi, L.data.scriptingAPI, 1)
         IN IndexModuleParameters(withApi, L.data.moduleParameters, 1)

\* transformSnippets throws: slugify(snippet.title) on a title that is no
\* string
transformSnippetsThrows(file) ==
    \E i \in 1..Len(file) : ~IsText(file[i].title)

\* the indexing loop of ensureSnippetsLoaded throws: extractKeywords on a
\* description that is no string
IndexSnippetsThrows(snippets) ==
    \E i \in 1..Len(snippets) : ~IsText(snippets[i].description)

RECURSIVE IndexSnippets(_, _, _)
\* the indexing loop of ensureSnippetsLoaded from snippet i on; the loop is
\* left at the snippet on which extractKeywords throws, after its
\* snippetIndex.set
IndexSnippets(L, snippets, i) ==
    IF i > Len(snippets) THEN L
    ELSE LET snippet == snippets[i]
             keywords == extractKeywords(<<snippet.title, snippet.description,
                                           snippet.category>> \o snippet.tags)
             withSnippet == [L EXCEPT
                               !.snippetIndex = MapSet(@, snippet.id, snippet)]
         IN IF ~IsText(snippet.description) THEN withSnippet
            ELSE IndexSnippets(
                   [withSnippet EXCEPT
                      !.keywordIndex = addToKeywordIndex(@, snippet.id, keywords, 1),
                      !.allItems = Append(@,
                          Item(snippet.id, "snippets", snippet.title,
                               snippet.description, keywords))],
                   snippets, i + 1)

\* ensureSnippetsLoaded, reading the snippet file `file`: the loader
\* afterwards.  A failure of the read, the parse or the transform is caught
\* before anything is set; a failure in the indexing loop is caught with
\* data.codeSnippets and a part of the indexes set.
\* (ensureSnippetsLoadedAgain is the same without the early return on
\* snippetsLoaded: every snippet-domain access reads and indexes the file again.)
ensureSnippetsLoadedAgain(L, file) ==
    IF L.data = NULL THEN L
    ELSE IF ~Readable(file) \/ transformSnippetsThrows(file.entries) THEN L
    ELSE LET snippets == transformSnippets(file.entries)
             withData == [L EXCEPT !.data.codeSnippets = snippets]
             indexed == IndexSnippets(withData, snippets, 1)
         IN IF IndexSnippetsThrows(snippets) THEN indexed
            ELSE [indexed EXCEPT !.snippetsLoaded = TRUE]

ensureSnippetsLoaded(L, file) ==
    IF L.snippetsLoaded \/ L.data = NULL THEN L
    ELSE IF ~Readable(file) \/ transformSnippetsThrows(file.entries) THEN L
    ELSE LET snippets == transformSnippets(file.entries)
             withData == [L EXCEPT !.data.codeSnippets = snippets]
             indexed == IndexSnippets(withData, snippets, 1)
         IN IF IndexSnippetsThrows(snippets) THEN indexed
            ELSE [indexed EXCEPT !.snippetsLoaded = TRUE]

\* what ensureSnippetsLoaded writes to console.error
ensureSnippetsLog(L, file) ==
    IF L.snippetsLoaded \/ L.data = NULL THEN {}
    ELSE IF \/ ~Readable(file)
            \/ transformSnippetsThrows(file.entries)
            \/ IndexSnippetsThrows(transformSnippets(file.entries))
    THEN {"Failed to load snippets:"}
    ELSE {"Lazy-loaded snippets"}

(***************************************************************************)
(* Cache Manager.                                                          *)
(***************************************************************************)
CacheVersion == "1.1"

\* getFileMtime: the catch returns 0 when require is not defined in the
\* running build (an ES module has none) or statSync throws
getFileMtime(host, name) ==
    IF host.requireDefined /\ host.files[name].kind # "missing"
    THEN host.mtimes[name]
    ELSE 0

\* the object saveCache writes, parsed back
Snapshot(version, host, records) ==
    [kind |-> "snapshot", version |-> version,
     uiMtime |-> getFileMtime(host, "ui"),
     apiMtime |-> getFileMtime(host, "api"),
     procMtime |-> getFileMtime(host, "proc"),
     data |-> records]

\* the records loadData builds from the three source files
BuildData(files) ==
    [uiComponentProperties |-> transformUIProperties(files.ui.entries),
     scriptingAPI |-> transformScriptingAPI(files.api.entries),
     moduleParameters |-> transformProcessors(files.proc.entries),
     codeSnippets |-> << >>]

\* a cache file is absent, unparsable, or the JSON of a snapshot
CacheAbsent == [kind |-> "absent"]
CacheGarbage == [kind |-> "garbage"]

\* a snapshot payload "data": {} : it has none of the record arrays
EmptyPayload == [kind |-> "object"]

\* the version and timestamp test of loadCache passes
CacheValid(cache, host) ==
    /\ cache.kind = "snapshot"
    /\ cache.version = CacheVersion
    /\ cache.uiMtime = getFileMtime(host, "ui")
    /\ cache.apiMtime = getFileMtime(host, "api")
    /\ cache.procMtime = getFileMtime(host, "proc")

\* loadCache: the loader afterwards, the value returned and what was logged
loadCache(L, cache, host) ==
    IF cache.kind = "absent"
    THEN [loader |-> L, hit |-> FALSE, log |-> {}]
    ELSE IF cache.kind = "garbage"
    THEN [loader |-> L, hit |-> FALSE, log |-> {"Failed to load cache:"}]
    ELSE IF ~CacheValid(cache, host)
    THEN [loader |-> L, hit |-> FALSE,
          log |-> {"Cache invalidated due to data file changes"}]
    ELSE LET restored == [L EXCEPT !.data = cache.data, !.snippetsLoaded = FALSE]
         IN IF cache.data = EmptyPayload
            \* buildIndexes clears the indexes, then iterating
            \* data.uiComponentProperties throws into the catch
            THEN [loader |-> [restored EXCEPT !.propertyIndex = EmptyMap,
                                              !.apiMethodIndex = EmptyMap,
                                              !.parameterIndex = EmptyMap,
                                              !.snippetIndex = EmptyMap,
                                              !.keywordIndex = EmptyMap,
                                              !.allItems = << >>],
                  hit |-> FALSE, log |-> {"Failed to load cache:"}]
            ELSE [loader |-> buildIndexes(restored), hit |-> TRUE, log |-> {}]

\* saveCache with the error of writeFileSync left uncaught
saveCacheUncaught(L, cache, host) ==
    IF host.cacheWritable
    THEN [cache |-> Snapshot(CacheVersion, host, L.data), log |-> {},
          threw |-> FALSE]
    ELSE [cache |-> cache, log |-> {}, threw |-> TRUE]

\* saveCache: the cache file afterwards, what was logged and whether it
\* threw (its catch takes every error)
saveCache(L, cache, host) ==
    IF host.cacheWritable
    THEN [cache |-> Snapshot(CacheVersion, host, L.data), log |-> {},
          threw |-> FALSE]
    ELSE [cache |-> cache, log |-> {"Failed to save cache:"}, threw |-> FALSE]

\* loadData: the loader and the cache file afterwards, what was logged and
\* whether it threw
loadData(L, host, cache) ==
    LET cached == loadCache(L, cache, host)
    IN IF cached.hit
       THEN [loader |-> cached.loader, cache |-> cache, threw |-> FALSE,
             log |-> cached.log \cup {"Loaded HISE data from cache"}]
       ELSE IF \E name \in {"ui", "api", "proc"} : ~Readable(host.files[name])
       THEN [loader |-> cached.loader, cache |-> cache, threw |-> TRUE,
             log |-> cached.log \cup {"Building HISE data indexes..."}]
       ELSE LET built == buildIndexes(
                           [cached.loader EXCEPT !.data = BuildData(host.files)])
                saved == saveCache(built, cache, host)
            IN [loader |-> built, cache |-> saved.cache, threw |-> saved.threw,
                log |-> cached.log \cup saved.log
                        \cup {"Building HISE data indexes..."}
                        \cup (IF saved.threw THEN {}
                              ELSE {"Built and cached HISE data indexes"})]

(***************************************************************************)
(* Search Engine.                                                          *)
(***************************************************************************)
Result(id, domain, name, description, score, matchType) ==
    [id |-> id, domain |-> domain, name |-> name, description |-> description,
     score |-> score, matchType |-> matchType]

RECURSIVE FilterDomain(_, _, _)
\* allItems.filter(item => item.domain === domain)
FilterDomain(items, domain, i) ==
    IF i > Len(items) THEN << >>
    ELSE (IF items[i].domain = domain THEN <<items[i]>> ELSE << >>)
         \o FilterDomain(items, domain, i + 1)

RECURSIVE InsertByScoreUnstable(_, _, _)
\* InsertByScore with equal scores reordered: r goes before the elements of
\* its own score
InsertByScoreUnstable(sorted, r, i) ==
    IF i > Len(sorted) THEN Append(sorted, r)
    ELSE IF sorted[i].score <= r.score
    THEN SubSeq(sorted, 1, i - 1) \o <<r>> \o SubSeq(sorted, i, Len(sorted))
    ELSE InsertByScoreUnstable(sorted, r, i + 1)

RECURSIVE InsertByScore(_, _, _)
\* r placed behind every element of the sorted sequence whose score is not
\* smaller: equal scores keep their order
InsertByScore(sorted, r, i) ==
    IF i > Len(sorted) THEN Append(sorted, r)
    ELSE IF sorted[i].score < r.score
    THEN SubSeq(sorted, 1, i - 1) \o <<r>> \o SubSeq(sorted, i, Len(sorted))
    ELSE InsertByScore(sorted, r, i + 1)

RECURSIVE SortFrom(_, _, _)
SortFrom(sorted, seq, i) ==
    IF i > Len(seq) THEN sorted
    ELSE SortFrom(InsertByScore(sorted, seq[i], 1), seq, i + 1)

\* results.sort((a, b) => b.score - a.score): Array.prototype.sort is stable
SortByScore(results) == SortFrom(<< >>, results, 1)

\* results.slice(0, limit)
Slice(results, limit) == SubSeq(results, 1, Min(limit, Len(results)))

ExactApi(L, normalized, domain) ==
    IF domain \in {"all", "api"} /\ MapHas(L.apiMethodIndex, normalized)
    THEN LET m == L.apiMethodIndex[normalized]
         IN << Result(m.namespace \o "." \o m.methodName, "api",
                      m.namespace \o "." \o m.methodName, m.description,
                      ScoreExact, "exact") >>
    ELSE << >>

ExactUi(L, normalized, domain) ==
    IF domain \in {"all", "ui"} /\ MapHas(L.propertyIndex, normalized)
    THEN LET u == L.propertyIndex[normalized]
         IN << Result(u.componentType \o "." \o u.propertyName, "ui",
                      u.componentType \o "." \o u.propertyName, u.description,
                      ScoreExact, "exact") >>
    ELSE << >>

ExactModule(L, normalized, domain) ==
    IF domain \in {"all", "modules"} /\ MapHas(L.parameterIndex, normalized)
    THEN LET q == L.parameterIndex[normalized]
         IN << Result(q.moduleType \o "." \o q.parameterId, "modules",
                      q.moduleType \o "." \o q.parameterId, q.description,
                      ScoreExact, "exact") >>
    ELSE << >>

ExactSnippet(L, normalized, domain) ==
    IF domain \in {"all", "snippets"} /\ MapHas(L.snippetIndex, normalized)
    THEN LET sn == L.snippetIndex[normalized]
         IN << Result(sn.id, "snippets", sn.title, sn.description,
                      ScoreExact, "exact") >>
    ELSE << >>

\* stage 1: the accumulated results and the seen set
ExactStage(L, normalized, domain) ==
    LET results == ExactApi(L, normalized, domain)
                   \o ExactUi(L, normalized, domain)
                   \o ExactModule(L, normalized, domain)
                   \o ExactSnippet(L, normalized, domain)
    IN [results |-> results,
        seen |-> IF results = << >> THEN {} ELSE {normalized}]

RECURSIVE PrefixStageUncapped(_, _, _, _, _)
\* PrefixStage without the break at limit * 2: every matching entry is taken
PrefixStageUncapped(acc, items, i, pattern, limit) ==
    IF i > Len(items) THEN acc
    ELSE LET item == items[i]
         IN IF item.id \in acc.seen
            THEN PrefixStageUncapped(acc, items, i + 1, pattern, limit)
            ELSE IF RegExpTest(pattern, item.id)
                    \/ RegExpTest(pattern, toLowerCase(item.name))
            THEN PrefixStageUncapped(
                    [results |-> Append(acc.results,
                                  Result(item.id, item.domain, item.name,
                                         item.description, ScorePrefix, "prefix")),
                     seen |-> acc.seen \cup {item.id}],
                    items, i + 1, pattern, limit)
            ELSE PrefixStageUncapped(acc, items, i + 1, pattern, limit)

RECURSIVE PrefixStage(_, _, _, _, _)
\* stage 2: the loop over itemsToSearch from index i on
PrefixStage(acc, items, i, pattern, limit) ==
    IF i > Len(items) THEN acc
    ELSE LET item == items[i]
         IN IF item.id \in acc.seen THEN PrefixStage(acc, items, i + 1, pattern, limit)
            ELSE IF RegExpTest(pattern, item.id)
                    \/ RegExpTest(pattern, toLowerCase(item.name))
            THEN LET next == [results |-> Append(acc.results,
                                  Result(item.id, item.domain, item.name,
                                         item.description, ScorePrefix, "prefix")),
                              seen |-> acc.seen \cup {item.id}]
                 IN IF Len(next.results) >= limit * PrefixCapFactor THEN next
                    ELSE PrefixStage(next, items, i + 1, pattern, limit)
            ELSE PrefixStage(acc, items, i + 1, pattern, limit)

RECURSIVE CountIds(_, _, _)
\* keywordMatches after counting the ids of one keyword: order is the Map's
\* insertion order, count its values
CountIds(matches, ids, i) ==
    IF i > Len(ids) THEN matches
    ELSE CountIds([order |-> AddUnique(matches.order, ids[i]),
                   count |-> MapSet(matches.count, ids[i],
                                    (IF MapHas(matches.count, ids[i])
                                     THEN matches.count[ids[i]] ELSE 0) + 1)],
                  ids, i + 1)

RECURSIVE CountKeywords(_, _, _, _)
CountKeywords(matches, index, queryKeywords, i) ==
    IF i > Len(queryKeywords) THEN matches
    ELSE CountKeywords(IF MapHas(index, queryKeywords[i])
                       THEN CountIds(matches, index[queryKeywords[i]], 1)
                       ELSE matches,
                       index, queryKeywords, i + 1)

RECURSIVE FindItem(_, _, _)
\* itemsToSearch.find(i => i.id === itemId), NULL when there is none
FindItem(items, itemId, i) ==
    IF i > Len(items) THEN NULL
    ELSE IF items[i].id = itemId THEN items[i]
    ELSE FindItem(items, itemId, i + 1)

KeywordScore(matchCount, total) ==
    Min(KeywordCap, KeywordBase + (matchCount * KeywordSpan) \div total)

RECURSIVE KeywordStage(_, _, _, _, _, _)
\* stage 3: the loop over keywordMatches from entry i on
KeywordStage(acc, matches, i, items, total, limit) ==
    IF i > Len(matches.order) THEN acc
    ELSE LET itemId == matches.order[i]
             item == FindItem(items, itemId, 1)
         IN IF itemId \in acc.seen \/ item = NULL
            THEN KeywordStage(acc, matches, i + 1, items, total, limit)
            ELSE LET next == [results |-> Append(acc.results,
                                  Result(item.id, item.domain, item.name,
                                         item.description,
                                         KeywordScore(matches.count[itemId], total),
                                         "keyword")),
                              seen |-> acc.seen \cup {itemId}]
                 IN IF Len(next.results) >= limit * KeywordCapFactor THEN next
                    ELSE KeywordStage(next, matches, i + 1, items, total, limit)

RECURSIVE FuzzyStage(_, _, _, _, _)
\* stage 4: the loop over itemsToSearch from index i on
FuzzyStage(acc, items, i, normalized, limit) ==
    IF i > Len(items) THEN acc
    ELSE LET item == items[i]
             score == calculateSimilarity(normalized, item.id,
                                          toLowerCase(item.name), item.keywords)
         IN IF item.id \in acc.seen
            THEN FuzzyStage(acc, items, i + 1, normalized, limit)
            ELSE IF score >= FuzzyThreshold
            THEN LET next == [results |-> Append(acc.results,
                                  Result(item.id, item.domain, item.name,
                                         item.description, score, "fuzzy")),
                              seen |-> acc.seen \cup {item.id}]
                 IN IF Len(next.results) >= limit * FuzzyCapFactor THEN next
                    ELSE FuzzyStage(next, items, i + 1, normalized, limit)
            ELSE FuzzyStage(acc, items, i + 1, normalized, limit)

\* what search() gives its caller: threw says that the promise rejects (the
\* RegExp constructor threw)
Returned(results) == [threw |-> FALSE, results |-> results]
Thrown == [threw |-> TRUE, results |-> << >>]

\* the run of search() on a loader whose snippets are ensured: which return
\* statement it leaves by, and the results array at that point, before the
\* sort and the slice
SearchRun(L, query, domain, limit) ==
    LET normalized == normalizeQuery(query)
        itemsToSearch == IF domain = "all" THEN L.allItems
                         ELSE FilterDomain(L.allItems, domain, 1)
        exact == ExactStage(L, normalized, domain)
        hasPrefixWildcard == includes(normalized, "*")
        pattern == ReplaceStars(normalized)
        prefix == IF hasPrefixWildcard
                  THEN PrefixStage(exact, itemsToSearch, 1, pattern, limit)
                  ELSE exact
        queryKeywords == extractKeywords(<<normalized>>)
        keywordMatches == CountKeywords([order |-> << >>, count |-> EmptyMap],
                                        L.keywordIndex, queryKeywords, 1)
        keyword == KeywordStage(prefix, keywordMatches, 1, itemsToSearch,
                                Len(queryKeywords), limit)
        fuzzy == FuzzyStage(keyword, itemsToSearch, 1, normalized, limit)
    IN IF Len(exact.results) >= limit
       THEN [exit |-> "exact", results |-> exact.results]
       ELSE IF hasPrefixWildcard /\ ~RegExpCompiles(pattern)
       THEN [exit |-> "throw", results |-> << >>]
       ELSE IF Len(prefix.results) >= limit
       THEN [exit |-> "prefix", results |-> prefix.results]
       ELSE IF Len(keyword.results) >= limit
       THEN [exit |-> "keyword", results |-> keyword.results]
       ELSE [exit |-> "fuzzy", results |-> fuzzy.results]

SearchLoaded(L, query, domain, limit) ==
    LET run == SearchRun(L, query, domain, limit)
    IN IF run.exit = "throw" THEN Thrown
       ELSE IF run.exit = "exact" THEN Returned(Slice(run.results, limit))
       ELSE Returned(Slice(SortByScore(run.results), limit))

\* whether an operation on `domain` first ensures that the snippets are loaded
TouchesSnippets(domain) == domain = "all" \/ domain = "snippets"

(***************************************************************************)
(* Exact queries and suggestions.                                          *)
(***************************************************************************)
queryUIProperty(L, componentProperty) ==
    MapGet(L.propertyIndex, normalizeQuery(componentProperty))

queryScriptingAPI(L, apiCall) ==
    MapGet(L.apiMethodIndex, normalizeQuery(apiCall))

queryModuleParameter(L, moduleParameter) ==
    MapGet(L.parameterIndex, normalizeQuery(moduleParameter))

Scored(id, score) == [id |-> id, score |-> score]

RECURSIVE Ids(_, _)
\* results.map(r => r.id)
Ids(results, i) ==
    IF i > Len(results) THEN << >> ELSE <<results[i].id>> \o Ids(results, i + 1)

RECURSIVE SimilarItemsAnyDomain(_, _, _, _)
\* SimilarItems without the domain test: entries of every domain are scored
SimilarItemsAnyDomain(items, i, normalized, domain) ==
    IF i > Len(items) THEN << >>
    ELSE LET item == items[i]
             score == calculateSimilarity(normalized, item.id,
                                          toLowerCase(item.name), item.keywords)
         IN (IF score > SimilarThreshold THEN <<Scored(item.name, score)>>
             ELSE << >>)
            \o SimilarItemsAnyDomain(items, i + 1, normalized, domain)

RECURSIVE SimilarItems(_, _, _, _)
\* the loop of findSimilar over allItems from index i on
SimilarItems(items, i, normalized, domain) ==
    IF i > Len(items) THEN << >>
    ELSE LET item == items[i]
             score == calculateSimilarity(normalized, item.id,
                                          toLowerCase(item.name), item.keywords)
         IN (IF domain # "all" /\ item.domain # domain THEN << >>
             ELSE IF score > SimilarThreshold THEN <<Scored(item.name, score)>>
             ELSE << >>)
            \o SimilarItems(items, i + 1, normalized, domain)

\* findSimilar once the snippets are ensured
SimilarLoaded(L, query, limit, domain) ==
    Ids(Slice(SortByScore(SimilarItems(L.allItems, 1, normalizeQuery(query),
                                       domain)),
              limit), 1)

(***************************************************************************)
(* Relation Finder.  The scores of one call share the denominator          *)
(* max(|subject.keywords|, 1); they are kept as numerators over it, that   *)
(* is, multiplied by that count.                                           *)
(***************************************************************************)
RECURSIVE Overlap(_, _, _)
\* item.keywords.filter(k => other.keywords.includes(k)).length
Overlap(keywords, others, i) ==
    IF i > Len(keywords) THEN 0
    ELSE (IF InSeq(keywords[i], others) THEN 1 ELSE 0)
         + Overlap(keywords, others, i + 1)

RECURSIVE OverlapItemsWithSelf(_, _, _, _)
\* OverlapItems without the `if (other.id === normalized) continue`
OverlapItemsWithSelf(items, i, normalized, item) ==
    IF i > Len(items) THEN << >>
    ELSE LET other == items[i]
             domainBonus == IF other.domain = item.domain THEN DomainBonus ELSE 0
             overlap == Overlap(item.keywords, other.keywords, 1)
             denominator == Max(Len(item.keywords), 1)
         IN (IF overlap > 0
             THEN <<Scored(other.name,
                           overlap * SimExact + domainBonus * denominator)>>
             ELSE << >>)
            \o OverlapItemsWithSelf(items, i + 1, normalized, item)

RECURSIVE OverlapItemsAll(_, _, _, _)
\* OverlapItems without the `if (overlap > 0)`: entries that share no
\* keyword are pushed too
OverlapItemsAll(items, i, normalized, item) ==
    IF i > Len(items) THEN << >>
    ELSE LET other == items[i]
             domainBonus == IF other.domain = item.domain THEN DomainBonus ELSE 0
             overlap == Overlap(item.keywords, other.keywords, 1)
             denominator == Max(Len(item.keywords), 1)
         IN (IF other.id = normalized THEN << >>
             ELSE <<Scored(other.name,
                           overlap * SimExact + domainBonus * denominator)>>)
            \o OverlapItemsAll(items, i + 1, normalized, item)

RECURSIVE OverlapItems(_, _, _, _)
\* the loop of getRelatedItems over allItems from index i on
OverlapItems(items, i, normalized, item) ==
    IF i > Len(items) THEN << >>
    ELSE LET other == items[i]
             domainBonus == IF other.domain = item.domain THEN DomainBonus ELSE 0
             overlap == Overlap(item.keywords, other.keywords, 1)
             denominator == Max(Len(item.keywords), 1)
         IN (IF other.id = normalized THEN << >>
             ELSE IF overlap > 0
             THEN <<Scored(other.name,
                           overlap * SimExact + domainBonus * denominator)>>
             ELSE << >>)
            \o OverlapItems(items, i + 1, normalized, item)

RECURSIVE AddReferencesCaseSensitive(_, _, _, _)
\* AddReferences comparing the names as they are, without toLowerCase
AddReferencesCaseSensitive(related, refs, i, score) ==
    IF i > Len(refs) THEN related
    ELSE AddReferencesCaseSensitive(
           IF \E j \in 1..Len(related) : related[j].id = refs[i]
           THEN related
           ELSE Append(related, Scored(refs[i], score)),
           refs, i + 1, score)

RECURSIVE AddReferences(_, _, _, _)
\* the loop over snippet.relatedAPIs (or relatedComponents) from index i on
AddReferences(related, refs, i, score) ==
    IF i > Len(refs) THEN related
    ELSE AddReferences(
           IF \E j \in 1..Len(related) :
                 toLowerCase(related[j].id) = toLowerCase(refs[i])
           THEN related
           ELSE Append(related, Scored(refs[i], score)),
           refs, i + 1, score)

getRelatedItems(L, id, limit) ==
    LET normalized == normalizeQuery(id)
        item == FindItem(L.allItems, normalized, 1)
    IN IF item = NULL THEN << >>
       ELSE LET denominator == Max(Len(item.keywords), 1)
                byOverlap == OverlapItems(L.allItems, 1, normalized, item)
                snippet == MapGet(L.snippetIndex, normalized)
                withApis == IF item.domain = "snippets" /\ snippet # NULL
                            THEN AddReferences(byOverlap, snippet.relatedAPIs, 1,
                                               RelatedApiScore * denominator)
                            ELSE byOverlap
                withComponents ==
                    IF item.domain = "snippets" /\ snippet # NULL
                    THEN AddReferences(withApis, snippet.relatedComponents, 1,
                                       RelatedComponentScore * denominator)
                    ELSE withApis
            IN Ids(Slice(SortByScore(withComponents), limit), 1)

(***************************************************************************)
(* Enriched queries and the snippet library.                               *)
(***************************************************************************)
\* getRelatedItems' default limit, which every caller in the server uses
DefaultRelatedLimit == 5

Enriched(result, related) == [result |-> result, related |-> related]

queryUIPropertyEnriched(L, componentProperty) ==
    LET result == queryUIProperty(L, componentProperty)
    IN IF result = NULL THEN NULL
       ELSE Enriched(result,
                     getRelatedItems(L, normalizeQuery(componentProperty),
                                     DefaultRelatedLimit))

queryScriptingAPIEnriched(L, apiCall) ==
    LET result == queryScriptingAPI(L, apiCall)
    IN IF result = NULL THEN NULL
       ELSE Enriched(result,
                     getRelatedItems(L, normalizeQuery(apiCall),
                                     DefaultRelatedLimit))

queryModuleParameterEnriched(L, moduleParameter) ==
    LET result == queryModuleParameter(L, moduleParameter)
    IN IF result = NULL THEN NULL
       ELSE Enriched(result,
                     getRelatedItems(L, normalizeQuery(moduleParameter),
                                     DefaultRelatedLimit))

\* the SnippetSummary of a snippet
Summary(snippet) ==
    [id |-> snippet.id, title |-> snippet.title,
     description |-> snippet.description, category |-> snippet.category,
     tags |-> snippet.tags, difficulty |-> snippet.difficulty]

Summaries(snippets) == [i \in 1..Len(snippets) |-> Summary(snippets[i])]

\* listSnippets on a loader whose snippets were ensured
listSnippets(L) ==
    IF L.data = NULL THEN << >> ELSE Summaries(L.data.codeSnippets)

RECURSIVE FindSnippet(_, _, _)
\* codeSnippets.find(...) of getSnippet, from index i on
FindSnippet(snippets, id, i) ==
    IF i > Len(snippets) THEN NULL
    ELSE IF \/ snippets[i].id = id
            \/ includes(snippets[i].id, id)
            \/ includes(toLowerCase(snippets[i].title), toLowerCase(id))
    THEN snippets[i]
    ELSE FindSnippet(snippets, id, i + 1)

\* getSnippet on a loader whose snippets were ensured
getSnippet(L, id) ==
    IF L.data = NULL THEN NULL
    ELSE IF MapHas(L.snippetIndex, id) THEN L.snippetIndex[id]
    ELSE FindSnippet(L.data.codeSnippets, id, 1)

getSnippetEnriched(L, id) ==
    LET result == getSnippet(L, id)
    IN IF result = NULL THEN NULL
       ELSE Enriched(result, getRelatedItems(L, result.id, DefaultRelatedLimit))

\* an option of list_snippets was passed and is truthy
Given(options, name) ==
    /\ name \in DOMAIN options
    /\ options[name] # (IF name = "tags" THEN << >> ELSE "")

RECURSIVE FilterCategoryExact(_, _, _)
\* FilterCategory comparing the categories as they are, without toLowerCase
FilterCategoryExact(snippets, category, i) ==
    IF i > Len(snippets) THEN << >>
    ELSE (IF snippets[i].category = category THEN <<snippets[i]>> ELSE << >>)
         \o FilterCategoryExact(snippets, category, i + 1)

RECURSIVE FilterCategory(_, _, _)
FilterCategory(snippets, category, i) ==
    IF i > Len(snippets) THEN << >>
    ELSE (IF toLowerCase(snippets[i].category) = toLowerCase(category)
          THEN <<snippets[i]>> ELSE << >>)
         \o FilterCategory(snippets, category, i + 1)

RECURSIVE FilterDifficulty(_, _, _)
FilterDifficulty(snippets, difficulty, i) ==
    IF i > Len(snippets) THEN << >>
    ELSE (IF snippets[i].difficulty = difficulty THEN <<snippets[i]>> ELSE << >>)
         \o FilterDifficulty(snippets, difficulty, i + 1)

RECURSIVE FilterTags(_, _, _)
\* searchTags are the requested tags, lowercased
FilterTags(snippets, searchTags, i) ==
    IF i > Len(snippets) THEN << >>
    ELSE (IF \E t \in 1..Len(snippets[i].tags) :
                InSeq(toLowerCase(snippets[i].tags[t]), searchTags)
          THEN <<snippets[i]>> ELSE << >>)
         \o FilterTags(snippets, searchTags, i + 1)

\* listSnippetsFiltered on a loader whose snippets were ensured
listSnippetsFiltered(L, options) ==
    IF L.data = NULL THEN << >>
    ELSE LET all == L.data.codeSnippets
             byCategory == IF Given(options, "category")
                           THEN FilterCategory(all, options.category, 1)
                           ELSE all
             byDifficulty == IF Given(options, "difficulty")
                             THEN FilterDifficulty(byCategory,
                                                   options.difficulty, 1)
                             ELSE byCategory
             byTags == IF Given(options, "tags")
                       THEN FilterTags(byDifficulty,
                                       [t \in 1..Len(options.tags) |->
                                           toLowerCase(options.tags[t])], 1)
                       ELSE byDifficulty
         IN Summaries(byTags)

(***************************************************************************)
(* Inputs of the operations.                                               *)
(***************************************************************************)
Queries ==
    { "Synth.addNoteOn", "synth.addnoteon", "SYNTH.ADDNOTEON",
      "Synth.addNoteOn()", "Synth.addNoteOn(60, 127)", "Synth.addNoteOn() ",
      " Synth.addNoteOn", "Synth.addNotOn", "Synth.addNoteO", "Synth.*",
      "SynthGroup.*", "*.Gain", "*.data", "Script*", "*", "Synth(*", "*)",
      "ScriptPanel.data", "SimpleGain.Gain", "ScriptSlider.mode()",
      "midi note", "the note event", "synth", "Synth.", "",
      "basic-synth", "midi-note-player", "Basic Synth", "MIDI Note Player",
      "NonExistent.Parameter", "xyznonexistent123", "xyz(*", "s.x(b()" }

\* the limits the tool handlers pass to findSimilar
SuggestionLimits == {3, 5}

Limits == 1..MaxLimit

\* search_hise clamps its limit argument to 1..50
MaxToolLimit == 50

\* the limit arguments search_hise is called with
ToolLimits == {0, MaxLimit}

\* the limit search_hise passes to findSimilar
HandlerSuggestionLimit == 5

\* the ids get_snippet is called with
SnippetIds == {"basic-synth", "midi-note-player", "MIDI", "synth", "none", ""}

\* the arguments of list_snippets: each option passed or left out
FilterOptions ==
    {[x \in {} |-> ""]}
    \cup {[category |-> c] : c \in {"modules", "MIDI", "Effects", ""}}
    \cup {[difficulty |-> d] : d \in {"beginner", "Advanced"}}
    \cup {[tags |-> t] : t \in {<<"MIDI", "featured">>, <<"none">>, << >>}}
    \cup {[category |-> "Modules", difficulty |-> "beginner"],
          [category |-> "midi", tags |-> <<"best practice">>],
          [category |-> "modules", difficulty |-> "intermediate",
           tags |-> <<"Featured">>]}

(***************************************************************************)
(* State.                                                                  *)
(***************************************************************************)
VARIABLES
    files,            \* the data directory: the four source files
    mtimes,           \* statSync(...).mtimeMs of the three tracked files
    requireDefined,   \* whether the running build defines `require`
    cacheWritable,    \* whether writeFileSync of data/.cache.json succeeds
    cacheFile,        \* data/.cache.json
    log,              \* the messages written with console.error so far
    pc,               \* main(): "start", then "serving" or "exited"
    data,             \* HISEDataLoader.data
    propertyIndex,    \* Map key -> UIComponentProperty
    apiMethodIndex,   \* Map key -> ScriptingAPIMethod
    parameterIndex,   \* Map key -> ModuleParameter
    snippetIndex,     \* Map id -> CodeSnippet
    keywordIndex,     \* Map keyword -> ids, in insertion order
    allItems,         \* the catalog
    snippetsLoaded,   \* the lazy-loading flag
    call,             \* the operation in flight and what it returned
    inflight,         \* the calls issued concurrently, by caller
    transports,       \* HTTP mode: the session registry of main()
    sessions,         \* HTTP mode: the transports created so far, by session id
    reply             \* HTTP mode: the answer to the last request

loaderVars == <<data, propertyIndex, apiMethodIndex, parameterIndex,
                snippetIndex, keywordIndex, allItems, snippetsLoaded>>

\* what the process finds on its host and never changes itself
hostVars == <<files, mtimes, requireDefined, cacheWritable>>

\* the concurrent callers and the HTTP front end, which the operations of one
\* caller on the loader leave alone
ioVars == <<inflight, transports, sessions, reply>>

vars == <<files, mtimes, requireDefined, cacheWritable, cacheFile, log, pc,
          data, propertyIndex, apiMethodIndex, parameterIndex, snippetIndex,
          keywordIndex, allItems, snippetsLoaded, call,
         inflight, transports, sessions, reply>>

\* the host as one record
Host ==
    [files |-> files, mtimes |-> mtimes, requireDefined |-> requireDefined,
     cacheWritable |-> cacheWritable]

\* the loader object as one record
Loader ==
    [data |-> data, propertyIndex |-> propertyIndex,
     apiMethodIndex |-> apiMethodIndex, parameterIndex |-> parameterIndex,
     snippetIndex |-> snippetIndex, keywordIndex |-> keywordIndex,
     allItems |-> allItems, snippetsLoaded |-> snippetsLoaded]

SetLoader(L) ==
    /\ data' = L.data
    /\ propertyIndex' = L.propertyIndex
    /\ apiMethodIndex' = L.apiMethodIndex
    /\ parameterIndex' = L.parameterIndex
    /\ snippetIndex' = L.snippetIndex
    /\ keywordIndex' = L.keywordIndex
    /\ allItems' = L.allItems
    /\ snippetsLoaded' = L.snippetsLoaded

Idle == [op |-> "idle"]

MaxRequests == 2

\* the callers that can have a call in flight at the same time
Requests == 1..MaxRequests

\* the ids randomUUID() can give to a session
SessionIds == {"s1", "s2", "s3"}

\* no HTTP request answered yet
NoReply == [method |-> "none", status |-> 0]

\* the loader an operation on `domain` works on, after its first await
\* (EnsuredAnyDomain: the snippets ensured whatever the domain is)
EnsuredAnyDomain(domain) == ensureSnippetsLoaded(Loader, files.snippets)

Ensured(domain) ==
    IF TouchesSnippets(domain) THEN ensureSnippetsLoaded(Loader, files.snippets)
    ELSE Loader

\* what that first await writes to console.error
EnsuredLog(domain) ==
    IF TouchesSnippets(domain) THEN ensureSnippetsLog(Loader, files.snippets)
    ELSE {}

\* the loader as main() constructs it, nothing logged, no call in flight
InitProcess ==
    /\ log = {}
    /\ pc = "start"
    /\ data = NewLoader.data
    /\ propertyIndex = NewLoader.propertyIndex
    /\ apiMethodIndex = NewLoader.apiMethodIndex
    /\ parameterIndex = NewLoader.parameterIndex
    /\ snippetIndex = NewLoader.snippetIndex
    /\ keywordIndex = NewLoader.keywordIndex
    /\ allItems = NewLoader.allItems
    /\ snippetsLoaded = NewLoader.snippetsLoaded
    /\ call = Idle
    /\ inflight = [r \in Requests |-> Idle]
    /\ transports = {}
    /\ sessions = [sid \in SessionIds |-> "unused"]
    /\ reply = NoReply

\* the timestamps of source files nobody touched since the last start
SavedMtimes == [ui |-> 1, api |-> 1, proc |-> 1]

\* the first start of a healthy installation: the source files are in
\* place, the data directory is writable and holds no cache file yet
Init ==
    /\ files \in Corpora
    /\ mtimes = SavedMtimes
    /\ requireDefined = FALSE
    /\ cacheWritable = TRUE
    /\ cacheFile = CacheAbsent
    /\ InitProcess

(***************************************************************************)
(* Operations.                                                             *)
(***************************************************************************)
\* main(): dataLoader = new HISEDataLoader(); await dataLoader.loadData();
\* when loadData throws, main().catch logs and calls process.exit(1)
LoadData ==
    /\ pc = "start"
    /\ LET r == loadData(Loader, Host, cacheFile)
       IN /\ SetLoader(r.loader)
          /\ cacheFile' = r.cache
          /\ log' = log \cup r.log
                    \cup (IF r.threw THEN {"Fatal error:"} ELSE {})
          /\ pc' = IF r.threw THEN "exited" ELSE "serving"
    /\ UNCHANGED <<hostVars, ioVars, call>>

Search(query, domain, limit) ==
    /\ pc = "serving" /\ call = Idle
    /\ SetLoader(Ensured(domain))
    /\ call' = [op |-> "search", query |-> query, domain |-> domain,
                limit |-> limit,
                ret |-> SearchLoaded(Ensured(domain), query, domain, limit)]
    /\ log' = log \cup EnsuredLog(domain)
    /\ UNCHANGED <<hostVars, ioVars, cacheFile, pc>>

FindSimilar(query, limit, domain) ==
    /\ pc = "serving" /\ call = Idle
    /\ SetLoader(Ensured(domain))
    /\ call' = [op |-> "findSimilar", query |-> query, domain |-> domain,
                limit |-> limit,
                ret |-> SimilarLoaded(Ensured(domain), query, limit, domain)]
    /\ log' = log \cup EnsuredLog(domain)
    /\ UNCHANGED <<hostVars, ioVars, cacheFile, pc>>

QueryUIProperty(query) ==
    /\ pc = "serving" /\ call = Idle
    /\ call' = [op |-> "queryUIProperty", query |-> query,
                ret |-> queryUIProperty(Loader, query)]
    /\ UNCHANGED <<hostVars, ioVars, cacheFile, log, pc, loaderVars>>

QueryScriptingAPI(query) ==
    /\ pc = "serving" /\ call = Idle
    /\ call' = [op |-> "queryScriptingAPI", query |-> query,
                ret |-> queryScriptingAPI(Loader, query)]
    /\ UNCHANGED <<hostVars, ioVars, cacheFile, log, pc, loaderVars>>

QueryModuleParameter(query) ==
    /\ pc = "serving" /\ call = Idle
    /\ call' = [op |-> "queryModuleParameter", query |-> query,
                ret |-> queryModuleParameter(Loader, query)]
    /\ UNCHANGED <<hostVars, ioVars, cacheFile, log, pc, loaderVars>>

GetRelatedItems(id, limit) ==
    /\ pc = "serving" /\ call = Idle
    /\ call' = [op |-> "getRelatedItems", query |-> id, limit |-> limit,
                ret |-> getRelatedItems(Loader, id, limit)]
    /\ UNCHANGED <<hostVars, ioVars, cacheFile, log, pc, loaderVars>>

QueryUIPropertyEnriched(query) ==
    /\ pc = "serving" /\ call = Idle
    /\ call' = [op |-> "queryUIPropertyEnriched", query |-> query,
                ret |-> queryUIPropertyEnriched(Loader, query)]
    /\ UNCHANGED <<hostVars, ioVars, cacheFile, log, pc, loaderVars>>

QueryScriptingAPIEnriched(query) ==
    /\ pc = "serving" /\ call = Idle
    /\ call' = [op |-> "queryScriptingAPIEnriched", query |-> query,
                ret |-> queryScriptingAPIEnriched(Loader, query)]
    /\ UNCHANGED <<hostVars, ioVars, cacheFile, log, pc, loaderVars>>

QueryModuleParameterEnriched(query) ==
    /\ pc = "serving" /\ call = Idle
    /\ call' = [op |-> "queryModuleParameterEnriched", query |-> query,
                ret |-> queryModuleParameterEnriched(Loader, query)]
    /\ UNCHANGED <<hostVars, ioVars, cacheFile, log, pc, loaderVars>>

ListSnippets ==
    /\ pc = "serving" /\ call = Idle
    /\ SetLoader(Ensured("snippets"))
    /\ call' = [op |-> "listSnippets",
                ret |-> listSnippets(Ensured("snippets"))]
    /\ log' = log \cup EnsuredLog("snippets")
    /\ UNCHANGED <<hostVars, ioVars, cacheFile, pc>>

GetSnippetEnriched(id) ==
    /\ pc = "serving" /\ call = Idle
    /\ SetLoader(Ensured("snippets"))
    /\ call' = [op |-> "getSnippetEnriched", query |-> id,
                ret |-> getSnippetEnriched(Ensured("snippets"), id)]
    /\ log' = log \cup EnsuredLog("snippets")
    /\ UNCHANGED <<hostVars, ioVars, cacheFile, pc>>

ListSnippetsFiltered(options) ==
    /\ pc = "serving" /\ call = Idle
    /\ SetLoader(Ensured("snippets"))
    /\ call' = [op |-> "listSnippetsFiltered", options |-> options,
                ret |-> listSnippetsFiltered(Ensured("snippets"), options)]
    /\ log' = log \cup EnsuredLog("snippets")
    /\ UNCHANGED <<hostVars, ioVars, cacheFile, pc>>

\* the search_hise tool: search, and findSimilar when search found nothing
SearchHise(query, domain, limit) ==
    /\ pc = "serving" /\ call = Idle
    /\ SetLoader(Ensured(domain))
    /\ LET clampedLimit == Min(Max(1, limit), MaxToolLimit)
           results == SearchLoaded(Ensured(domain), query, domain, clampedLimit)
           suggestions == SimilarLoaded(Ensured(domain), query,
                                        HandlerSuggestionLimit, domain)
       IN call' = [op |-> "search_hise", query |-> query, domain |-> domain,
                   limit |-> limit,
                   ret |-> IF results.threw THEN [branch |-> "isError"]
                           ELSE IF results.results # << >>
                           THEN [branch |-> "results",
                                 results |-> results.results]
                           ELSE IF suggestions # << >>
                           THEN [branch |-> "didYouMean",
                                 suggestions |-> suggestions]
                           ELSE [branch |-> "noResults"]]
    /\ log' = log \cup EnsuredLog(domain)
    /\ UNCHANGED <<hostVars, ioVars, cacheFile, pc>>

\* the caller takes the result; the loader is ready for the next operation
Respond ==
    /\ call # Idle
    /\ call' = Idle
    /\ UNCHANGED <<hostVars, ioVars, cacheFile, log, pc, loaderVars>>

Next ==
    \/ LoadData
    \/ \E q \in Queries, d \in SearchDomains, l \in Limits : Search(q, d, l)
    \/ \E q \in Queries, l \in SuggestionLimits, d \in SearchDomains :
          FindSimilar(q, l, d)
    \/ \E q \in Queries : QueryUIProperty(q)
    \/ \E q \in Queries : QueryScriptingAPI(q)
    \/ \E q \in Queries : QueryModuleParameter(q)
    \/ \E q \in Queries, l \in Limits \cup {DefaultRelatedLimit} :
          GetRelatedItems(q, l)
    \/ \E q \in Queries : QueryUIPropertyEnriched(q)
    \/ \E q \in Queries : QueryScriptingAPIEnriched(q)
    \/ \E q \in Queries : QueryModuleParameterEnriched(q)
    \/ ListSnippets
    \/ \E id \in SnippetIds : GetSnippetEnriched(id)
    \/ \E options \in FilterOptions : ListSnippetsFiltered(options)
    \/ \E q \in Queries, d \in SearchDomains, l \in ToolLimits :
          SearchHise(q, d, l)
    \/ Respond

Spec == Init /\ [][Next]_vars

(***************************************************************************)
(* Startup on any installation.  An earlier start saved the cache from the *)
(* files of SavedFiles; since then source files may have been replaced,    *)
(* removed or damaged, and the cache file edited, damaged or removed.      *)
(***************************************************************************)
SavedFiles ==
    [ui |-> JsonFile(UiSmall), api |-> JsonFile(ApiSmall),
     proc |-> JsonFile(ProcSmall), snippets |-> JsonFile(SnipSmall)]

\* what the data directory can hold at this start
Installations ==
    [ui : {JsonFile(UiSmall), FileMissing, FileWrongShape},
     api : {JsonFile(ApiSmall), JsonFile(ApiBig), FileUnparsable},
     proc : {JsonFile(ProcSmall), FileMissing},
     snippets : {JsonFile(SnipSmall)}]

\* a file that differs from the saved one was written after the save
TouchedMtime == 2

MtimesOf(fs) ==
    [name \in {"ui", "api", "proc"} |->
        IF fs[name] = SavedFiles[name] THEN SavedMtimes[name] ELSE TouchedMtime]

\* a stored timestamp somebody edited in the cache file
AlteredMtime == 7

\* the cache files an earlier start and later edits can have left: what
\* saveCache wrote at the save, with the version, one stored timestamp or the
\* payload changed
CacheFiles(require) ==
    LET saved == Snapshot(CacheVersion,
                          [files |-> SavedFiles, mtimes |-> SavedMtimes,
                           requireDefined |-> require, cacheWritable |-> TRUE],
                          BuildData(SavedFiles))
    IN {CacheAbsent, CacheGarbage}
       \cup {[saved EXCEPT !.version = v, !.uiMtime = m, !.data = d] :
                v \in {CacheVersion, "1.0"},
                m \in {saved.uiMtime, AlteredMtime},
                d \in {saved.data, NULL, EmptyPayload}}

StartupInit ==
    /\ files \in Installations
    /\ mtimes = MtimesOf(files)
    /\ requireDefined \in BOOLEAN
    /\ cacheWritable \in BOOLEAN
    /\ cacheFile \in CacheFiles(requireDefined)
    /\ InitProcess

\* the requests that probe the started server
ProbeQueries == {"Synth.addNoteOn", "Synth.playNote", "ScriptSlider.mode"}

StartupNext ==
    \/ LoadData
    \/ \E q \in ProbeQueries : QueryScriptingAPI(q)
    \/ \E q \in ProbeQueries : QueryUIProperty(q)
    \/ Respond

StartupSpec == StartupInit /\ [][StartupNext]_vars

(***************************************************************************)
(* A loader that is loaded again.  loadData is a public method of the      *)
(* exported class HISEDataLoader: a holder of the loader can invoke it on  *)
(* a loader that already serves, with the snippets loaded or not.  The     *)
(* cache file is there or not according to whether the first load could    *)
(* write it.                                                               *)
(***************************************************************************)
ReloadInit ==
    /\ files \in Corpora
    /\ mtimes = SavedMtimes
    /\ requireDefined = FALSE
    /\ cacheWritable \in BOOLEAN
    /\ cacheFile = CacheAbsent
    /\ InitProcess

\* loadData invoked on the serving loader
Reload ==
    /\ pc = "serving" /\ call = Idle
    /\ LET r == loadData(Loader, Host, cacheFile)
       IN /\ SetLoader(r.loader)
          /\ cacheFile' = r.cache
          /\ log' = log \cup r.log
          /\ pc' = IF r.threw THEN "exited" ELSE "serving"
    /\ call' = [op |-> "loadData"]
    /\ UNCHANGED <<hostVars, ioVars>>

ReloadNext ==
    \/ LoadData
    \/ Reload
    \/ ListSnippets
    \/ \E id \in SnippetIds : GetSnippetEnriched(id)
    \/ \E q \in ProbeQueries : QueryScriptingAPI(q)
    \/ Respond

ReloadSpec == ReloadInit /\ [][ReloadNext]_vars

(***************************************************************************)
(* Concurrent callers.  The core runs on one thread: a call runs from the  *)
(* arrival of its request to its first suspension in one turn, and from    *)
(* its resumption to its return in another; turns of different calls       *)
(* interleave in any order.  search, findSimilar, listSnippets and          *)
(* getSnippet suspend once, at `await this.ensureSnippetsLoaded()`.         *)
(***************************************************************************)
ConcurrentCalls ==
    {[op |-> "search", query |-> "synth", domain |-> "all", limit |-> 2],
     [op |-> "search", query |-> "synth", domain |-> "api", limit |-> 2],
     [op |-> "findSimilar", query |-> "basic", domain |-> "snippets", limit |-> 3],
     [op |-> "listSnippets"],
     [op |-> "getSnippet", query |-> "basic-synth"]}

\* the call awaits ensureSnippetsLoaded
AwaitsSnippets(c) ==
    \/ c.op \in {"listSnippets", "getSnippet"}
    \/ c.op \in {"search", "findSimilar"} /\ TouchesSnippets(c.domain)

\* ensureSnippetsLoaded with the file read by an awaited readFile: the first
\* turn only tests the flag, the load and the appends run after the
\* resumption of a caller that found the snippets unloaded
SnippetLoadTurnAwaitedRead(L, file, unloaded, turn) ==
    IF turn = 1 \/ ~unloaded THEN L ELSE ensureSnippetsLoadedAgain(L, file)

\* what ensureSnippetsLoaded does to the loader in each of the two turns of
\* its caller: it has no await in its body (readFileSync), so the whole
\* of it runs in the first turn and nothing is left for the second
SnippetLoadTurn(L, file, unloaded, turn) ==
    IF turn = 1 THEN ensureSnippetsLoaded(L, file) ELSE L

\* what the call returns on the loader L
ResultOf(L, c) ==
    CASE c.op = "search" -> SearchLoaded(L, c.query, c.domain, c.limit)
      [] c.op = "findSimilar" -> SimilarLoaded(L, c.query, c.limit, c.domain)
      [] c.op = "listSnippets" -> listSnippets(L)
      [] c.op = "getSnippet" -> getSnippet(L, c.query)

\* caller r issues the call c: the first turn
Issue(r, c) ==
    /\ pc = "serving" /\ inflight[r] = Idle
    /\ IF AwaitsSnippets(c)
       THEN /\ SetLoader(SnippetLoadTurn(Loader, files.snippets,
                                         ~snippetsLoaded, 1))
            /\ log' = log \cup ensureSnippetsLog(Loader, files.snippets)
            /\ inflight' = [inflight EXCEPT
                              ![r] = [call |-> c, stage |-> "awaiting",
                                      unloaded |-> ~snippetsLoaded]]
       ELSE /\ inflight' = [inflight EXCEPT
                              ![r] = [call |-> c, stage |-> "returned",
                                      ret |-> ResultOf(Loader, c)]]
            /\ UNCHANGED <<loaderVars, log>>
    /\ UNCHANGED <<hostVars, cacheFile, pc, call, transports, sessions, reply>>

\* the call of caller r is resumed after its await and runs to its return
Resume(r) ==
    /\ pc = "serving" /\ inflight[r] # Idle /\ inflight[r].stage = "awaiting"
    /\ LET L == SnippetLoadTurn(Loader, files.snippets, inflight[r].unloaded, 2)
       IN /\ SetLoader(L)
          /\ inflight' = [inflight EXCEPT
                            ![r] = [call |-> inflight[r].call,
                                    stage |-> "returned",
                                    ret |-> ResultOf(L, inflight[r].call)]]
    /\ UNCHANGED <<hostVars, cacheFile, log, pc, call, transports, sessions, reply>>

\* caller r takes the result
Deliver(r) ==
    /\ inflight[r] # Idle /\ inflight[r].stage = "returned"
    /\ inflight' = [inflight EXCEPT ![r] = Idle]
    /\ UNCHANGED <<hostVars, cacheFile, log, pc, call, loaderVars,
                   transports, sessions, reply>>

\* a healthy installation whose snippet file may be missing or broken
ConcurrentInit ==
    /\ files \in [ui : {JsonFile(UiSmall)}, api : {JsonFile(ApiSmall)},
                  proc : {JsonFile(ProcSmall)},
                  snippets : {JsonFile(SnipSmall), FileMissing, FileUnparsable}]
    /\ mtimes = SavedMtimes
    /\ requireDefined = FALSE
    /\ cacheWritable = TRUE
    /\ cacheFile = CacheAbsent
    /\ InitProcess

ConcurrentNext ==
    \/ LoadData
    \/ \E r \in Requests, c \in ConcurrentCalls : Issue(r, c)
    \/ \E r \in Requests : Resume(r)
    \/ \E r \in Requests : Deliver(r)

ConcurrentSpec == ConcurrentInit /\ [][ConcurrentNext]_vars

(***************************************************************************)
(* A snippet library that cannot be loaded: the file is missing, is no     *)
(* JSON, or holds an entry the program cannot process.                     *)
(***************************************************************************)
SnippetFaultInit ==
    /\ files \in [ui : {JsonFile(UiSmall)}, api : {JsonFile(ApiSmall)},
                  proc : {JsonFile(ProcSmall)},
                  snippets : {FileMissing, FileUnparsable,
                              JsonFile(SnipBadTitle),
                              JsonFile(SnipBadDescription),
                              JsonFile(SnipSmall)}]
    /\ mtimes = SavedMtimes
    /\ requireDefined = FALSE
    /\ cacheWritable = TRUE
    /\ cacheFile = CacheAbsent
    /\ InitProcess

FaultQueries == {"basic", "basic-synth", "Synth.addNoteOn"}

MaxFailedLoads == 3

\* the failed loads so far have left fewer than MaxFailedLoads snippet
\* entries in the catalog
MayRetry == snippetsLoaded \/ Len(FilterDomain(allItems, "snippets", 1)) < MaxFailedLoads

SnippetFaultNext ==
    \/ LoadData
    \/ \E q \in FaultQueries, d \in {"all", "snippets", "api"}, l \in Limits :
          MayRetry /\ Search(q, d, l)
    \/ MayRetry /\ ListSnippets
    \/ \E id \in SnippetIds : MayRetry /\ GetSnippetEnriched(id)
    \/ Respond

SnippetFaultSpec == SnippetFaultInit /\ [][SnippetFaultNext]_vars

(***************************************************************************)
(* HTTP mode.  `transports` is the plain object of main(), by its own      *)
(* keys; a lookup transports[sessionId] also finds what the object         *)
(* inherits from Object.prototype.  The transport class and                *)
(* isInitializeRequest belong to the MCP SDK: handling an initialize       *)
(* request gives the new transport a session id and calls                  *)
(* onsessioninitialized, handling a DELETE closes the transport, which     *)
(* calls onclose.                                                          *)
(***************************************************************************)
\* property names every plain object inherits
InheritedKeys == {"constructor"}

\* the values of the mcp-session-id header: an id the server gave out or
\* may give out, an id nobody gave out, an inherited property name, and ""
\* for a header that is missing or empty
HeaderValues == SessionIds \cup {"forged", "constructor", ""}

\* transports[sessionId] is truthy
Lookup(registry, sessionId) ==
    sessionId \in registry \/ sessionId \in InheritedKeys

Answer(method, sessionId, status, routed) ==
    [method |-> method, sessionId |-> sessionId, status |-> status,
     routed |-> routed]

\* app.post('/mcp')
HttpPost(sessionId, isInitialize) ==
    /\ pc = "serving"
    /\ IF sessionId # "" /\ Lookup(transports, sessionId)
       THEN /\ reply' = IF sessionId \in transports
                        THEN Answer("POST", sessionId, 200, sessionId)
                        \* handleRequest is not a function: the catch answers
                        ELSE Answer("POST", sessionId, 500, "")
            /\ UNCHANGED <<transports, sessions>>
       ELSE IF sessionId = "" /\ isInitialize
       THEN \E sid \in SessionIds :
               /\ sessions[sid] = "unused"
               /\ sessions' = [sessions EXCEPT ![sid] = "open"]
               /\ transports' = transports \cup {sid}
               /\ reply' = Answer("POST", sessionId, 200, sid)
       ELSE /\ reply' = Answer("POST", sessionId, 400, "")
            /\ UNCHANGED <<transports, sessions>>
    /\ UNCHANGED <<hostVars, cacheFile, log, pc, loaderVars, call, inflight>>

\* app.get('/mcp'); the handler has no try: when handleRequest is not a
\* function the promise of the handler rejects.  What follows depends on
\* the versions of express and node the build runs on: the framework
\* answers 500, or nothing is answered and the process goes on or is ended
\* by the unhandled rejection
HttpGet(sessionId) ==
    /\ pc = "serving"
    /\ IF sessionId = "" \/ ~Lookup(transports, sessionId)
       THEN reply' = Answer("GET", sessionId, 400, "") /\ pc' = pc
       ELSE IF sessionId \in transports
       THEN reply' = Answer("GET", sessionId, 200, sessionId) /\ pc' = pc
       ELSE \E status \in {0, 500} :
               /\ reply' = Answer("GET", sessionId, status, "")
               /\ pc' \in IF status = 0 THEN {"serving", "exited"}
                           ELSE {"serving"}
    /\ UNCHANGED <<hostVars, cacheFile, log, loaderVars, call, inflight,
                   transports, sessions>>

\* app.delete('/mcp')
HttpDelete(sessionId) ==
    /\ pc = "serving"
    /\ IF sessionId = "" \/ ~Lookup(transports, sessionId)
       THEN /\ reply' = Answer("DELETE", sessionId, 400, "")
            /\ UNCHANGED <<transports, sessions>>
       ELSE IF sessionId \in transports
       THEN /\ reply' = Answer("DELETE", sessionId, 200, sessionId)
            /\ transports' = transports \ {sessionId}
            /\ sessions' = [sessions EXCEPT ![sessionId] = "closed"]
       ELSE /\ reply' = Answer("DELETE", sessionId, 500, "")
            /\ UNCHANGED <<transports, sessions>>
    /\ UNCHANGED <<hostVars, cacheFile, log, pc, loaderVars, call, inflight>>

\* the transport of a session closes (its connection ends): transport.onclose
TransportClose(sid) ==
    /\ pc = "serving"
    /\ sessions[sid] = "open"
    /\ sessions' = [sessions EXCEPT ![sid] = "closed"]
    /\ transports' = IF Lookup(transports, sid) THEN transports \ {sid}
                     ELSE transports
    /\ UNCHANGED <<hostVars, cacheFile, log, pc, loaderVars, call, inflight,
                   reply>>

HttpInit ==
    /\ files = [ui |-> JsonFile(UiSmall), api |-> JsonFile(ApiSmall),
                proc |-> JsonFile(ProcSmall), snippets |-> JsonFile(SnipSmall)]
    /\ mtimes = SavedMtimes
    /\ requireDefined = FALSE
    /\ cacheWritable = TRUE
    /\ cacheFile = CacheAbsent
    /\ InitProcess

HttpNext ==
    \/ LoadData
    \/ \E sessionId \in HeaderValues, isInitialize \in BOOLEAN :
          HttpPost(sessionId, isInitialize)
    \/ \E sessionId \in HeaderValues : HttpGet(sessionId)
    \/ \E sessionId \in HeaderValues : HttpDelete(sessionId)
    \/ \E sid \in SessionIds : TransportClose(sid)

HttpSpec == HttpInit /\ [][HttpNext]_vars

(***************************************************************************)
(* Properties.                                                             *)
(***************************************************************************)
IsSearch == call.op = "search"

SearchReturned == IsSearch /\ ~call.ret.threw

ExactOps == {"queryUIProperty", "queryScriptingAPI", "queryModuleParameter"}

\* the keys of the three non-snippet exact dictionaries
ExactKeys ==
    (DOMAIN propertyIndex) \cup (DOMAIN apiMethodIndex)
    \cup (DOMAIN parameterIndex)

RECURSIVE Position(_, _, _)
\* the index of the first element of seq equal to r, from i on; 0 if none
Position(seq, r, i) ==
    IF i > Len(seq) THEN 0
    ELSE IF seq[i] = r THEN i
    ELSE Position(seq, r, i + 1)

\* the results array of the search in `call` before its sort and slice
Selected == SearchRun(Loader, call.query, call.domain, call.limit).results

\* C1: for an id of the api, ui or modules dictionary, search(id, 'all',
\* limit) returns a list whose first element has that id, score 1.0 and
\* matchType 'exact'.
C1_ExactIdFirst ==
    (IsSearch /\ call.domain = "all" /\ call.query \in ExactKeys)
    => /\ ~call.ret.threw
       /\ Len(call.ret.results) >= 1
       /\ call.ret.results[1].id = call.query
       /\ call.ret.results[1].score = ScoreExact
       /\ call.ret.results[1].matchType = "exact"

\* C2: search returns at most limit results, in non-increasing score order,
\* and results of equal score are in the order the stages selected them.
C2_BoundedSortedStable ==
    SearchReturned
    => LET rs == call.ret.results
       IN /\ Len(rs) <= call.limit
          /\ \A i \in 1..Len(rs) : Position(Selected, rs[i], 1) > 0
          /\ \A i, j \in 1..Len(rs) :
                i < j => /\ rs[i].score >= rs[j].score
                         /\ rs[i].score = rs[j].score
                            => Position(Selected, rs[i], 1)
                               < Position(Selected, rs[j], 1)

\* a search whose sort moved a result forward and whose answer holds two
\* results of one score
C2_Witness ==
    /\ SearchReturned
    /\ Len(call.ret.results) >= 3
    /\ \E k \in 1..(Len(Selected) - 1) : Selected[k].score < Selected[k + 1].score
    /\ \E i, j \in 1..Len(call.ret.results) :
          i < j /\ call.ret.results[i].score = call.ret.results[j].score

\* the values the Similarity Scorer gives that reach the fuzzy threshold
FuzzyScores == {SimKeyword, SimSegment, SimSubstring, SimPrefix, SimExact}

\* C3: every result's score lies in [0,1] and is fixed by its matchType:
\* exact 1.0, prefix 0.9, keyword min(0.8, 0.3 + 0.5 * matchCount / total)
\* with 1 <= matchCount <= total, fuzzy a scorer value >= 0.4.
C3_ScoreByMatchType ==
    SearchReturned
    => \A i \in 1..Len(call.ret.results) :
          LET r == call.ret.results[i]
              total == Len(extractKeywords(<<normalizeQuery(call.query)>>))
          IN /\ 0 <= r.score /\ r.score <= ScoreExact
             /\ r.matchType \in {"exact", "prefix", "keyword", "fuzzy"}
             /\ r.matchType = "exact" => r.score = ScoreExact
             /\ r.matchType = "prefix" => r.score = ScorePrefix
             /\ r.matchType = "keyword"
                => \E matchCount \in 1..total :
                      r.score = Min(KeywordCap,
                                    KeywordBase
                                    + (matchCount * KeywordSpan) \div total)
             /\ r.matchType = "fuzzy"
                => r.score >= FuzzyThreshold /\ r.score \in FuzzyScores

\* a search that returns a keyword hit on part of the query's tokens
\* together with a fuzzy hit
C3_Witness ==
    /\ SearchReturned
    /\ \E i, j \in 1..Len(call.ret.results) :
          /\ call.ret.results[i].matchType = "keyword"
          /\ call.ret.results[i].score < KeywordCap
          /\ call.ret.results[j].matchType = "fuzzy"

\* the query is "<ns>.*": a namespace, a dot and one trailing wildcard
IsNamespaceWildcard(query) ==
    LET n == normalizeQuery(query)
        ns == SubSeq(n, 1, Len(n) - 2)
    IN /\ Len(n) > 2
       /\ endsWith(n, ".*")
       /\ \A i \in 1..Len(ns) : IsAlnum(Char(ns, i))

\* C4: for a query "<ns>.*" restricted to one domain, every result is an
\* entry of that domain with an id "<ns>.<member>", matchType 'prefix' and
\* score 0.9.
C4_WildcardListsNamespace ==
    (SearchReturned /\ call.domain # "all" /\ IsNamespaceWildcard(call.query))
    => LET n == normalizeQuery(call.query)
           nsDot == SubSeq(n, 1, Len(n) - 1)
       IN \A i \in 1..Len(call.ret.results) :
             LET r == call.ret.results[i]
             IN /\ r.domain = call.domain
                /\ startsWith(r.id, nsDot) /\ Len(r.id) > Len(nsDot)
                /\ r.matchType = "prefix"
                /\ r.score = ScorePrefix

\* the items search looks at for `domain`
ItemsOf(domain) ==
    IF domain = "all" THEN allItems ELSE FilterDomain(allItems, domain, 1)

\* no stage of search has a match for the query: no exact key, no wildcard
\* match, no shared keyword, and a scorer value under 0.4 for every entry
NoStageMatches(query, domain) ==
    LET n == normalizeQuery(query)
        items == ItemsOf(domain)
        words == extractKeywords(<<n>>)
    IN /\ domain \in {"all", "api"} => ~MapHas(apiMethodIndex, n)
       /\ domain \in {"all", "ui"} => ~MapHas(propertyIndex, n)
       /\ domain \in {"all", "modules"} => ~MapHas(parameterIndex, n)
       /\ domain \in {"all", "snippets"} => ~MapHas(snippetIndex, n)
       /\ \A i \in 1..Len(items) :
             /\ ~(/\ includes(n, "*")
                  /\ RegExpCompiles(ReplaceStars(n))
                  /\ \/ RegExpTest(ReplaceStars(n), items[i].id)
                     \/ RegExpTest(ReplaceStars(n), toLowerCase(items[i].name)))
             /\ ~WordsMatch(words, items[i].keywords)
             /\ calculateSimilarity(n, items[i].id, toLowerCase(items[i].name),
                                    items[i].keywords) < FuzzyThreshold

\* C5: a query that no stage matches makes search return an empty list, an
\* exact query for an absent id returns not-found, and neither raises.
C5_NoMatchIsEmptyNotError ==
    /\ (IsSearch /\ NoStageMatches(call.query, call.domain))
       => call.ret = Returned(<< >>)
    /\ (call.op = "queryScriptingAPI"
        /\ ~MapHas(apiMethodIndex, normalizeQuery(call.query)))
       => call.ret = NULL
    /\ (call.op = "queryUIProperty"
        /\ ~MapHas(propertyIndex, normalizeQuery(call.query)))
       => call.ret = NULL
    /\ (call.op = "queryModuleParameter"
        /\ ~MapHas(parameterIndex, normalizeQuery(call.query)))
       => call.ret = NULL

\* C6: two queries that differ only in letter case get the same result list
\* from search, for the same domain, limit and index state.
C6_SearchCaseInsensitive ==
    IsSearch
    => /\ call.ret = SearchLoaded(Loader, toUpperCase(call.query),
                                  call.domain, call.limit)
       /\ call.ret = SearchLoaded(Loader, toLowerCase(call.query),
                                  call.domain, call.limit)

\* a search with capitals in its query that found something
C6_Witness ==
    /\ SearchReturned
    /\ call.query # toLowerCase(call.query)
    /\ call.query # toUpperCase(call.query)
    /\ Len(call.ret.results) >= 1

\* C7: normalizeQuery(normalizeQuery(q)) = normalizeQuery(q) for every
\* query string q an operation is called with.
C7_NormalizeIdempotent ==
    "query" \in DOMAIN call
    => normalizeQuery(normalizeQuery(call.query)) = normalizeQuery(call.query)

\* the exact query operation named op
QueryExact(op, query) ==
    IF op = "queryUIProperty" THEN queryUIProperty(Loader, query)
    ELSE IF op = "queryScriptingAPI" THEN queryScriptingAPI(Loader, query)
    ELSE queryModuleParameter(Loader, query)

\* the exact dictionary the operation named op reads
IndexOf(op) ==
    IF op = "queryUIProperty" THEN propertyIndex
    ELSE IF op = "queryScriptingAPI" THEN apiMethodIndex
    ELSE parameterIndex

\* X is a name: it holds no parenthesis of its own
IsName(query) == ~includes(query, "(") /\ ~includes(query, ")")

\* C8: an exact query operation returns the same record for a name X, for
\* "X()" and for the letter-case variants of X: the record stored under the
\* lowercased, trimmed X when there is one, and not-found otherwise.
C8_ExactQueryVariants ==
    (call.op \in ExactOps /\ IsName(call.query))
    => LET key == trim(toLowerCase(call.query))
       IN /\ call.ret = QueryExact(call.op, call.query \o "()")
          /\ call.ret = QueryExact(call.op, toUpperCase(call.query))
          /\ call.ret = QueryExact(call.op, toLowerCase(call.query))
          /\ call.ret = IF key \in DOMAIN IndexOf(call.op)
                        THEN IndexOf(call.op)[key] ELSE NULL

\* an exact query with capitals and blanks around the name that found its
\* record
C8_Witness ==
    /\ call.op \in ExactOps
    /\ IsName(call.query)
    /\ call.query # toLowerCase(call.query)
    /\ call.query # trim(call.query)
    /\ call.ret # NULL

\* query is name with one character of the member part (behind the first
\* dot) left out
IsMemberTypo(query, name) ==
    LET dot == IndexOfChar(name, ".", 1)
    IN /\ dot # 0
       /\ \E i \in (dot + 1)..Len(name) :
             query = SubSeq(name, 1, i - 1) \o SubSeq(name, i + 1, Len(name))

\* C9: findSimilar(query, 5, 'api') includes the name of every api item that
\* the query is a one-character member typo of.
C9_TypoTolerated ==
    (call.op = "findSimilar" /\ call.limit = 5 /\ call.domain = "api")
    => \A i \in 1..Len(allItems) :
          (allItems[i].domain = "api" /\ IsMemberTypo(call.query, allItems[i].name))
          => InSeq(allItems[i].name, call.ret)

\* the catalog entry getRelatedItems takes for the subject of `call`
Subject == FindItem(allItems, normalizeQuery(call.query), 1)

IsRelated == call.op = "getRelatedItems" /\ Subject # NULL

\* the explicit references of the subject: relatedAPIs and relatedComponents
\* of the snippet stored under the subject's id, none for other subjects
References ==
    IF Subject.domain = "snippets" /\ MapHas(snippetIndex, Subject.id)
    THEN snippetIndex[Subject.id].relatedAPIs
         \o snippetIndex[Subject.id].relatedComponents
    ELSE << >>

\* other is a catalog entry that shares no keyword with the subject
Disjoint(other) == Overlap(Subject.keywords, other.keywords, 1) = 0

\* C11 as stated: a catalog entry whose keyword set is disjoint from the
\* subject's does not appear in getRelatedItems(subject, limit).
C11_DisjointExcluded ==
    IsRelated
    => \A k \in 1..Len(allItems) :
          Disjoint(allItems[k]) => ~InSeq(allItems[k].name, call.ret)

\* C11 amended: every name getRelatedItems returns is the name of another
\* catalog entry that shares a keyword with the subject, or one of the
\* explicit references of a snippet subject; so an entry with a disjoint
\* keyword set appears only as an explicit reference.
C11_RelatedSharesKeywordOrReferenced ==
    IsRelated
    => \A i \in 1..Len(call.ret) :
          \/ \E k \in 1..Len(allItems) :
                /\ allItems[k].name = call.ret[i]
                /\ allItems[k].id # Subject.id
                /\ ~Disjoint(allItems[k])
          \/ InSeq(call.ret[i], References)

\* a subject with related entries while the catalog holds an entry, not the
\* subject, that shares no keyword with it and is left out
C11_Witness ==
    /\ IsRelated
    /\ Len(call.ret) >= 1
    /\ Len(call.ret) < call.limit
    /\ \E k \in 1..Len(allItems) :
          /\ allItems[k].id # Subject.id
          /\ Disjoint(allItems[k])
          /\ ~InSeq(allItems[k].name, call.ret)

\* two names are equal ignoring letter case
SameName(a, b) == toLowerCase(a) = toLowerCase(b)

CountSame(seq, name) == Cardinality({i \in 1..Len(seq) : SameName(seq[i], name)})

\* the catalog entries the keyword loop of getRelatedItems pushes for the
\* subject: not the subject, and sharing a keyword with it
OverlapEntries ==
    {k \in 1..Len(allItems) :
        allItems[k].id # Subject.id /\ ~Disjoint(allItems[k])}

\* overlap / max(|keywords|, 1) + bonus of entry k, times the denominator
OverlapScore(k) ==
    Overlap(Subject.keywords, allItems[k].keywords, 1) * SimExact
    + (IF allItems[k].domain = Subject.domain THEN DomainBonus ELSE 0)
      * Max(Len(Subject.keywords), 1)

\* the score under which `name` stands in the related list
RelatedScore(name) ==
    LET ks == {k \in OverlapEntries : allItems[k].name = name}
        denominator == Max(Len(Subject.keywords), 1)
    IN IF ks # {}
       THEN OverlapScore(CHOOSE k \in ks :
                            \A o \in ks : OverlapScore(k) >= OverlapScore(o))
       ELSE IF InSeq(name, snippetIndex[Subject.id].relatedAPIs)
       THEN RelatedApiScore * denominator
       ELSE RelatedComponentScore * denominator

\* C12: for a snippet subject an explicit reference (related API at 0.9,
\* related component at 0.85) is injected only when no entry already in the
\* list equals it ignoring case, so it never duplicates an entry; the list
\* is sorted by score descending and truncated to limit.
C12_ReferencesInjectedOnce ==
    (IsRelated /\ Subject.domain = "snippets" /\ MapHas(snippetIndex, Subject.id))
    => /\ Len(call.ret) <= call.limit
       /\ \A i, j \in 1..Len(call.ret) :
             i < j => RelatedScore(call.ret[i]) >= RelatedScore(call.ret[j])
       /\ \A r \in 1..Len(References) :
             LET ref == References[r]
                 present == {k \in OverlapEntries :
                                SameName(allItems[k].name, ref)}
             IN /\ CountSame(call.ret, ref) <= Max(1, Cardinality(present))
                /\ present # {}
                   => \A i \in 1..Len(call.ret) :
                         SameName(call.ret[i], ref)
                         => \E k \in present : allItems[k].name = call.ret[i]
                /\ Len(call.ret) < call.limit => CountSame(call.ret, ref) >= 1

\* related items of a snippet: one reference was injected, and another was
\* left out because a keyword match of the same name, in another letter
\* case, was already in the list
C12_Witness ==
    /\ IsRelated /\ Subject.domain = "snippets" /\ MapHas(snippetIndex, Subject.id)
    /\ \E r \in 1..Len(References) :
          /\ InSeq(References[r], call.ret)
          /\ \A k \in OverlapEntries : ~SameName(allItems[k].name, References[r])
    /\ \E r \in 1..Len(References) :
          /\ ~InSeq(References[r], call.ret)
          /\ \E i \in 1..Len(call.ret) :
                /\ SameName(call.ret[i], References[r])
                /\ \E k \in OverlapEntries : allItems[k].name = call.ret[i]

\* loadData took the records from the cache / built them from the files
CacheHit == "Loaded HISE data from cache" \in log

Rebuilt == "Built and cached HISE data indexes" \in log

\* C13: a cache load is a hit only if the stored version is the current one
\* and the three source files are unchanged since the snapshot was saved
\* with its stored timestamps unaltered; otherwise it is a miss, the records
\* are rebuilt from the source files and the snapshot is overwritten.
C13_HitOnlyIfUnchanged ==
    /\ CacheHit
       => /\ cacheFile.kind = "snapshot"
          /\ cacheFile.version = CacheVersion
          /\ cacheFile.uiMtime # AlteredMtime
          /\ \A name \in {"ui", "api", "proc"} :
                files[name] = SavedFiles[name] /\ mtimes[name] = SavedMtimes[name]
    /\ Rebuilt
       => /\ data = BuildData(files)
          /\ cacheWritable => cacheFile = Snapshot(CacheVersion, Host, data)

\* the snapshot cannot be used: no file, no JSON, another version, or a
\* record payload that is missing or has no record arrays
BadCache(cache) ==
    \/ cache.kind \in {"absent", "garbage"}
    \/ cache.version # CacheVersion
    \/ cache.data \in {NULL, EmptyPayload}

SourcesReadable == \A name \in {"ui", "api", "proc"} : Readable(files[name])

\* C14: a failure while reading, parsing or validating the cache snapshot
\* (missing file, invalid JSON, wrong version, malformed or missing record
\* payload) is a cache miss: loadData rebuilds from the source files and
\* never aborts because of the cache.
C14_BadCacheIsMiss ==
    [][(pc = "start" /\ BadCache(cacheFile))
       => /\ ~CacheHit'
          /\ SourcesReadable => (pc' = "serving" /\ data' = BuildData(files))]_vars

\* a start from a snapshot saved from other source files than the present
\* ones that was taken as a hit
StaleHit ==
    /\ CacheHit
    /\ files.api = JsonFile(ApiBig)
    /\ data = BuildData(SavedFiles)
    /\ call.op = "queryScriptingAPI" /\ call.query = "Synth.playNote"
    /\ call.ret = NULL

SaveFailed == "Failed to save cache:" \in log

\* C15: a failure while writing the cache snapshot does not fail loadData:
\* it is logged, loadData completes, and the dictionaries, catalog and
\* keyword index built before the save stay as built and serve queries.
C15_SaveFailureNotFatal ==
    /\ (pc # "start" /\ ~cacheWritable /\ SourcesReadable /\ ~CacheHit)
       => SaveFailed /\ pc = "serving"
    /\ SaveFailed
       => /\ pc = "serving"
          /\ Loader = buildIndexes([NewLoader EXCEPT !.data = BuildData(files)])
          /\ call.op = "queryScriptingAPI"
             => \A i \in 1..Len(files.api.entries) :
                   LET e == files.api.entries[i]
                   IN toLowerCase(call.query)
                         = toLowerCase(e.namespace \o "." \o e.name)
                      => /\ call.ret # NULL
                         /\ call.ret.namespace = e.namespace
                         /\ call.ret.methodName = e.name

\* after a failed save the server answered an exact query with its record
C15_Witness ==
    /\ SaveFailed
    /\ ~cacheWritable
    /\ call.op = "queryScriptingAPI"
    /\ call.ret # NULL

\* C16: if one of the three source files is missing or malformed at startup,
\* loadData fails and the process exits with a logged fatal error; it does
\* not complete with an empty or partial corpus.
C16_BadSourceIsFatal ==
    (pc # "start" /\ \E name \in {"ui", "api", "proc"} : files[name].kind # "json")
    => pc = "exited" /\ "Fatal error:" \in log

\* a start without cache file on a ui source file of the wrong shape that
\* ends serving without any ui property
EmptyCorpusServed ==
    /\ pc = "serving"
    /\ Rebuilt
    /\ files.ui = FileWrongShape
    /\ propertyIndex = EmptyMap
    /\ call.op = "queryUIProperty" /\ call.query = "ScriptSlider.mode"
    /\ call.ret = NULL

\* a start that ends serving from the cache while a source file is missing
MissingSourceServed ==
    /\ pc = "serving"
    /\ CacheHit
    /\ files.proc = FileMissing
    /\ data = BuildData(SavedFiles)

\* the query has a wildcard and its pattern is no valid regular expression
MalformedWildcard(query) ==
    /\ includes(normalizeQuery(query), "*")
    /\ ~RegExpCompiles(ReplaceStars(normalizeQuery(query)))

\* C17: a wildcard query whose pattern does not compile as a regular
\* expression does not make search raise; search returns a result list.
C17_MalformedWildcardDegrades ==
    (IsSearch /\ MalformedWildcard(call.query)) => ~call.ret.threw

\* the catalog entries of the snippet domain, in catalog order
SnippetEntries(items) == FilterDomain(items, "snippets", 1)

\* C18: once the snippets are loaded they stay loaded, and the snippet
\* records, the snippet dictionary and the snippet entries of the catalog are
\* the same after every later step of the process.
C18_SnippetsLoadOnceThenFixed ==
    [][snippetsLoaded
       => /\ snippetsLoaded'
          /\ data'.codeSnippets = data.codeSnippets
          /\ snippetIndex' = snippetIndex
          /\ SnippetEntries(allItems') = SnippetEntries(allItems)]_vars

\* a second snippet-domain operation has run on loaded, non-empty snippets:
\* the catalog holds each snippet record once
C18_Witness ==
    /\ snippetsLoaded
    /\ call.op = "listSnippetsFiltered"
    /\ call.options = [difficulty |-> "beginner"]
    /\ Len(call.ret) = 1
    /\ Len(SnippetEntries(allItems)) = Len(data.codeSnippets)
    /\ "Lazy-loaded snippets" \in log

\* the step is a query operation: the process is serving and a call starts
QueryStep == pc = "serving" /\ call = Idle /\ call' # Idle

\* the operation that starts in this step awaits ensureSnippetsLoaded
SnippetAccess ==
    \/ call'.op \in {"listSnippets", "listSnippetsFiltered", "getSnippetEnriched"}
    \/ /\ call'.op \in {"search", "findSimilar", "search_hise"}
       /\ TouchesSnippets(call'.domain)

IsPrefix(old, new) == Len(old) <= Len(new) /\ SubSeq(new, 1, Len(old)) = old

\* the lazy snippet load only adds: snippet keys to the snippet dictionary,
\* snippet entries behind the catalog, snippet ids behind the keyword lists
OnlySnippetsAdded ==
    /\ \A key \in DOMAIN snippetIndex :
          key \in DOMAIN snippetIndex' /\ snippetIndex'[key] = snippetIndex[key]
    /\ IsPrefix(allItems, allItems')
    /\ \A i \in (Len(allItems) + 1)..Len(allItems') :
          allItems'[i].domain = "snippets"
    /\ \A keyword \in DOMAIN keywordIndex :
          /\ keyword \in DOMAIN keywordIndex'
          /\ IsPrefix(keywordIndex[keyword], keywordIndex'[keyword])
    /\ \A keyword \in DOMAIN keywordIndex' :
          \A i \in 1..Len(keywordIndex'[keyword]) :
             \/ /\ keyword \in DOMAIN keywordIndex
                /\ i <= Len(keywordIndex[keyword])
             \/ keywordIndex'[keyword][i] \in DOMAIN snippetIndex'

\* C19 as stated: no query operation changes an exact-lookup dictionary, the
\* catalog or the keyword index.
C19_QueriesChangeNothing ==
    [][QueryStep
       => UNCHANGED <<propertyIndex, apiMethodIndex, parameterIndex,
                      snippetIndex, allItems, keywordIndex>>]_vars

\* C19 amended: a query operation never changes the UI-property, API-method
\* and module-parameter dictionaries; it changes the snippet dictionary, the
\* catalog and the keyword index only when it is a snippet-domain access on
\* unloaded snippets, and then only by adding the snippet entries.
C19_QueriesOnlyLazyLoadSnippets ==
    [][QueryStep
       => /\ UNCHANGED <<propertyIndex, apiMethodIndex, parameterIndex>>
          /\ IF SnippetAccess /\ ~snippetsLoaded
             THEN OnlySnippetsAdded
             ELSE UNCHANGED <<snippetIndex, allItems, keywordIndex>>]_vars

\* a search over every domain has run the lazy load: the catalog holds the
\* entries of the build followed by the snippet entries
C19_Witness ==
    /\ IsSearch /\ call.domain = "all" /\ snippetsLoaded
    /\ "Lazy-loaded snippets" \in log
    /\ SnippetEntries(allItems) # << >>
    /\ Len(SnippetEntries(allItems)) < Len(allItems)

\* the filter `name` is requested: passed, and not the empty string or the
\* empty list
Requested(options, name) ==
    name \in DOMAIN options /\ Len(options[name]) > 0

\* the summary satisfies every requested filter
Satisfies(summary, options) ==
    /\ Requested(options, "category")
       => toLowerCase(summary.category) = toLowerCase(options.category)
    /\ Requested(options, "difficulty")
       => summary.difficulty = options.difficulty
    /\ Requested(options, "tags")
       => \E t \in 1..Len(summary.tags), r \in 1..Len(options.tags) :
             toLowerCase(summary.tags[t]) = toLowerCase(options.tags[r])

\* C20: list_snippets returns exactly the snippets that satisfy every
\* requested filter (category equal ignoring case, difficulty equal, one tag
\* equal ignoring case to a requested tag), in the order of the unfiltered
\* list; with no filter requested it returns the unfiltered list.
C20_FilteredListExact ==
    call.op = "listSnippetsFiltered"
    => LET all == Summaries(data.codeSnippets)
       IN /\ call.ret = SelectSeq(all, LAMBDA s : Satisfies(s, call.options))
          /\ (\A name \in {"category", "difficulty", "tags"} :
                 ~Requested(call.options, name))
             => call.ret = all

\* a category written in another case and a tag written in another case
\* select one snippet out of three
C20_Witness ==
    /\ call.op = "listSnippetsFiltered"
    /\ call.options = [category |-> "midi", tags |-> <<"best practice">>]
    /\ Len(data.codeSnippets) = 3
    /\ Len(call.ret) = 1
    /\ call.ret[1].id = "midi-note-player"

\* no two elements of the result list have the same id
DistinctIds(results) ==
    \A i, j \in 1..Len(results) : results[i].id = results[j].id => i = j

\* C21: no id appears more than once in a list that search returns.
C21_NoIdTwice ==
    SearchReturned => DistinctIds(call.ret.results)

\* how many candidates of the list were selected by one of the stages `types`
CountOf(results, types) ==
    Cardinality({i \in 1..Len(results) : results[i].matchType \in types})

\* C22: in the candidate list of a search, before the sort and the slice, a
\* stage has added candidates only if the earlier stages left fewer than
\* limit, the list holds at most 2 x limit candidates up to the prefix stage,
\* 3 x limit up to the keyword stage and 5 x limit in all.
C22_CandidatesCapped ==
    SearchReturned
    => LET limit == call.limit
           early == CountOf(Selected, {"exact"})
           upToPrefix == CountOf(Selected, {"exact", "prefix"})
           upToKeyword == CountOf(Selected, {"exact", "prefix", "keyword"})
       IN /\ upToPrefix > early => early < limit /\ upToPrefix <= 2 * limit
          /\ upToKeyword > upToPrefix
             => upToPrefix < limit /\ upToKeyword <= 3 * limit
          /\ Len(Selected) > upToKeyword
             => upToKeyword < limit /\ Len(Selected) <= 5 * limit
          /\ Len(Selected) <= 5 * limit

\* the prefix stage stopped at its cap with a matching entry left over
C22_WitnessPrefix ==
    /\ SearchReturned
    /\ CountOf(Selected, {"prefix"}) = 2 * call.limit
    /\ \E i \in 1..Len(ItemsOf(call.domain)) :
          /\ RegExpTest(ReplaceStars(normalizeQuery(call.query)),
                        ItemsOf(call.domain)[i].id)
          /\ \A j \in 1..Len(Selected) :
                Selected[j].id # ItemsOf(call.domain)[i].id

\* the keyword stage stopped at its cap
C22_WitnessKeyword ==
    /\ SearchReturned
    /\ CountOf(Selected, {"keyword"}) = 3 * call.limit

\* the fuzzy stage stopped at its cap
C22_WitnessFuzzy ==
    /\ SearchReturned
    /\ CountOf(Selected, {"fuzzy"}) > 0
    /\ Len(Selected) = 5 * call.limit

\* the set of the elements of a sequence
SeqRange(seq) == {seq[i] : i \in 1..Len(seq)}

\* the values of the scorer's rules that apply to the query and the entry
RuleValues(query, item) ==
    LET id == item.id
        name == toLowerCase(item.name)
    IN {0}
       \cup (IF id = query \/ name = query THEN {SimExact} ELSE {})
       \cup (IF startsWith(id, query) \/ startsWith(name, query)
             THEN {SimPrefix} ELSE {})
       \cup (IF includes(id, query) \/ includes(name, query)
             THEN {SimSubstring} ELSE {})
       \cup (IF \E qp \in SeqRange(split(query, ".")) :
                   \E ip \in SeqRange(split(id, ".")) : includes(ip, qp)
             THEN {SimSegment} ELSE {})
       \cup (IF SeqRange(extractKeywords(<<query>>)) \cap SeqRange(item.keywords) # {}
             THEN {SimKeyword} ELSE {})

SetMax(S) == CHOOSE x \in S : \A y \in S : y <= x

\* the scorer's value for the query of the call and a catalog entry
ScoreOf(item) ==
    calculateSimilarity(normalizeQuery(call.query), item.id,
                        toLowerCase(item.name), item.keywords)

\* C23: for the query of a call and every catalog entry the Similarity Scorer
\* gives the largest value among the rules that apply (exact 1.0, prefix 0.8,
\* substring 0.6, segment 0.5, token 0.4, none 0.0), so one of these six
\* values, and every fuzzy result of a search carries that value for an
\* entry with its id.
C23_ScorerIsMaxRule ==
    call.op \in {"search", "findSimilar"}
    => /\ \A i \in 1..Len(allItems) :
             /\ ScoreOf(allItems[i])
                = SetMax(RuleValues(normalizeQuery(call.query), allItems[i]))
             /\ ScoreOf(allItems[i])
                \in {0, SimKeyword, SimSegment, SimSubstring, SimPrefix, SimExact}
       /\ SearchReturned
          => \A k \in 1..Len(call.ret.results) :
                call.ret.results[k].matchType = "fuzzy"
                => \E i \in 1..Len(allItems) :
                      /\ allItems[i].id = call.ret.results[k].id
                      /\ call.ret.results[k].score
                         = SetMax(RuleValues(normalizeQuery(call.query),
                                             allItems[i]))

\* findSimilar has suggested an entry to which the prefix, substring,
\* segment and token rules all apply, next to an entry that no rule applies to
C23_Witness ==
    /\ call.op = "findSimilar"
    /\ call.ret # << >>
    /\ \E i, j \in 1..Len(allItems) :
          /\ RuleValues(normalizeQuery(call.query), allItems[i])
             = {0, SimKeyword, SimSegment, SimSubstring, SimPrefix}
          /\ InSeq(allItems[i].name, call.ret)
          /\ RuleValues(normalizeQuery(call.query), allItems[j]) = {0}

\* the step invokes loadData again on the serving loader
ReloadStep == pc = "serving" /\ call = Idle /\ call'.op = "loadData"

\* C24: building the indexes again from the same sources leaves the three
\* exact dictionaries as they were and, when the snippet state afterwards
\* says 'loaded', also the snippet dictionary, the catalog and the keyword
\* index, the catalog holding one entry for every snippet record.
C24_RebuildIdempotent ==
    [][ReloadStep
       => /\ UNCHANGED <<propertyIndex, apiMethodIndex, parameterIndex>>
          /\ snippetsLoaded'
             => /\ UNCHANGED <<snippetIndex, allItems, keywordIndex>>
                /\ Len(SnippetEntries(allItems'))
                   = Len(transformSnippets(files.snippets.entries))]_vars

\* a loader that was loaded again after its snippets were loaded says
\* 'loaded' and has no snippet left
SnippetsLostByReload ==
    /\ call.op = "loadData"
    /\ snippetsLoaded
    /\ files.snippets.entries # << >>
    /\ data.codeSnippets = << >>
    /\ snippetIndex = EmptyMap
    /\ SnippetEntries(allItems) = << >>

\* the snippet entries of the catalog are the snippet records, one entry
\* for each record and in their order
OneEntryPerSnippet ==
    /\ Len(SnippetEntries(allItems)) = Len(data.codeSnippets)
    /\ \A i \in 1..Len(data.codeSnippets) :
          /\ SnippetEntries(allItems)[i].id = data.codeSnippets[i].id
          /\ SnippetEntries(allItems)[i].name = data.codeSnippets[i].title

C26_NoSuggestionAfterEmptySearch ==
    call.op = "search_hise" => call.ret.branch # "didYouMean"

\* search_hise found nothing in a domain, asked findSimilar, and answered
\* 'No results', although an entry of another domain reaches the threshold
C26_Witness ==
    /\ call.op = "search_hise"
    /\ call.ret.branch = "noResults"
    /\ call.domain # "all"
    /\ \E i \in 1..Len(allItems) :
          /\ allItems[i].domain # call.domain
          /\ ScoreOf(allItems[i]) > SimilarThreshold

\* C27: once the data is loaded, after any queries, an id is listed under a
\* token of the keyword index exactly if a catalog entry with that id has
\* the token among its keywords; so every id of the keyword index is the id
\* of a catalog entry.
C27_KeywordIndexMatchesCatalog ==
    pc = "serving"
    => /\ \A t \in DOMAIN keywordIndex :
             \A id \in SeqRange(keywordIndex[t]) :
                \E i \in 1..Len(allItems) :
                   allItems[i].id = id /\ InSeq(t, allItems[i].keywords)
       /\ \A i \in 1..Len(allItems) :
             \A t \in SeqRange(allItems[i].keywords) :
                /\ t \in DOMAIN keywordIndex
                /\ InSeq(allItems[i].id, keywordIndex[t])

\* after the lazy snippet load a token lists a snippet id behind the id of
\* an entry of the first build
C27_Witness ==
    /\ pc = "serving" /\ snippetsLoaded /\ call # Idle
    /\ \E t \in DOMAIN keywordIndex :
          /\ Len(keywordIndex[t]) >= 2
          /\ keywordIndex[t][1] \notin DOMAIN snippetIndex
          /\ keywordIndex[t][Len(keywordIndex[t])] \in DOMAIN snippetIndex

\* the operation started in this step came back with a result
CameBack ==
    call'.op = "search" => ~call'.ret.threw

\* C29: a snippet-domain access whose lazy load fails returns to its caller,
\* leaves the snippets unloaded, and leaves the snippet dictionary, the
\* catalog and the keyword index as they were.
C29_FailedLoadChangesNothing ==
    [][(QueryStep /\ SnippetAccess /\ ~snippetsLoaded /\ ~snippetsLoaded')
       => /\ CameBack
          /\ UNCHANGED <<snippetIndex, allItems, keywordIndex>>]_vars

\* after two failed loads the catalog holds the entry of the first snippet
\* twice
DuplicatedByRetry ==
    /\ ~snippetsLoaded
    /\ \E i, j \in 1..Len(allItems) :
          i < j /\ allItems[i] = allItems[j] /\ allItems[i].domain = "snippets"

\* the values of a dictionary
MapValues(m) == {m[k] : k \in DOMAIN m}

\* the ids of the catalog entries of a domain
CatalogIds(domain) ==
    {allItems[i].id : i \in {j \in 1..Len(allItems) : allItems[j].domain = domain}}

\* C28: when loadData has completed without an error, the record set is not
\* null, each exact dictionary holds exactly the records of its domain, and
\* the catalog holds exactly one entry for each of them.
C28_LoadedMeansIndexed ==
    pc = "serving"
    => /\ data # NULL
       /\ MapValues(propertyIndex) = SeqRange(data.uiComponentProperties)
       /\ MapValues(apiMethodIndex) = SeqRange(data.scriptingAPI)
       /\ MapValues(parameterIndex) = SeqRange(data.moduleParameters)
       /\ CatalogIds("ui") = DOMAIN propertyIndex
       /\ CatalogIds("api") = DOMAIN apiMethodIndex
       /\ CatalogIds("modules") = DOMAIN parameterIndex
       /\ Len(allItems) = Len(data.uiComponentProperties)
                          + Len(data.scriptingAPI)
                          + Len(data.moduleParameters)
                          + Len(SnippetEntries(allItems))

\* the step answers an HTTP request on /mcp
HttpStep == pc = "serving" /\ reply' # reply

\* the request answered in this step had no registered session id and was
\* not a session-less initialize request
NotRoutable ==
    /\ reply'.sessionId \notin transports
    /\ ~(reply'.method = "POST" /\ reply'.sessionId = "" /\ reply'.routed # "")

\* C30: a request on /mcp whose session id is missing or not registered,
\* other than a session-less initialize POST, is answered with 400 and
\* leaves the registry unchanged; a request is routed only to the transport
\* registered under its session id; and the registry holds exactly the
\* sessions that were initialized and whose transport has not closed.
C30_OnlyRegisteredSessionsRouted ==
    [][/\ HttpStep /\ NotRoutable
          => reply'.status = 400 /\ reply'.routed = "" /\ transports' = transports
       /\ HttpStep /\ reply'.routed # "" /\ reply'.sessionId # ""
          => reply'.routed = reply'.sessionId /\ reply'.sessionId \in transports
       /\ transports' = {sid \in SessionIds : sessions'[sid] = "open"}]_vars

\* a request with the unregistered session id "constructor" was taken to a
\* lookup hit: there is no 400, and a GET has ended the process
InheritedKeyAccepted ==
    /\ reply.method = "GET"
    /\ reply.sessionId = "constructor"
    /\ reply.status = 0
    /\ pc = "exited"

====
